---------------------------- MODULE Spec2Model ----------------------------
(***************************************************************************)
(* A model of the Wildberries position bot:                                *)
(*   - WildberriesService (src/src/services/wildberries_service.py):       *)
(*     _make_request, get_product_data, get_product_details,               *)
(*     find_product_position, analyze_product_keywords,                    *)
(*     _resolve_basket_id;                                                 *)
(*   - PiaProxyService (src/src/services/proxy_service.py);                *)
(*   - process_wildberries_url (src/src/bot/bot.py);                       *)
(*   - the async_retry decorator (src/src/utils/retry.py).                 *)
(*                                                                         *)
(* Spec       one call of a public method of a WildberriesService          *)
(*            instance, its awaits being the steps;                        *)
(* SpecFair   Spec with the fairness the awaits have (a request ends       *)
(*            after at most its 30 s timeout, a sleep ends);               *)
(* SpecRetry  one call of a function wrapped by async_retry, under every   *)
(*            decorator of RetryConfigs;                                   *)
(* SpecRetry2 two calls of one wrapped function, interleaved at their      *)
(*            awaits;                                                      *)
(* SpecAnalyze calls of analyze_product_keywords, its awaits and those of  *)
(*            the scans it runs being the steps;                           *)
(* SpecBot    messages handled by process_wildberries_url;                 *)
(* SpecShard  calls of _resolve_basket_id;                                 *)
(* SpecToken  calls of generate_session_id while time passes;              *)
(* SpecProxy  analyses through the proxy while time passes.                *)
(*                                                                         *)
(* Delays are integers, in milliseconds; the clock is in seconds.          *)
(***************************************************************************)
EXTENDS Integers, Sequences, FiniteSets

VARIABLES
    pc,                \* where the running service method is
    method,            \* the public method that was called
    article_id,        \* get_product_data: what extract_article_id returned
    product_id,        \* find_product_position: the target id
    page,              \* find_product_position: loop variable of line 165
    current_position,  \* find_product_position: the running counter
    ret,               \* what the method gave its caller
    pages,             \* history: the value each _make_request of the scan returned
    fetched,           \* history: the page numbers requested, in order
    sleeps,            \* history: the asyncio.sleep calls completed by the scan
    http_attempts,     \* history: HTTP GETs sent since the call started
    retry_delays,      \* history: backoff delays taken by _make_request
    last_http,         \* history: what upstream did to the last GET
    last_result,       \* history: what _make_request made of it
    events,            \* history: the requests sent and the sleeps ended, in order
    apc,               \* analyze_product_keywords: where the call is
    product_url,       \* analyze_product_keywords: its product_url argument
    user_id,           \* the user_id argument of the running call
    keywords,          \* analyze_product_keywords: its keywords argument
    kw,                \* analyze_product_keywords: index of the loop of line 224
    search_results,    \* analyze_product_keywords: the list of line 223
    product_details,   \* analyze_product_keywords: the ProductDetails in use
    result,            \* analyze_product_keywords: what it gave its caller
    now,               \* time.time(), in seconds
    md5,               \* hashlib.md5, cut to 11 hex digits, on the inputs it is given
    proxy_cfg,         \* WB_USE_PROXY and the proxy settings of config
    issued,            \* history: the last session ids generated
    shard,             \* the last _resolve_basket_id call: argument and result
    tasks,             \* analyze_product_keywords: the locals of each concurrent call
    llm,               \* extract_keywords: its requests and what it returned
    bpc,               \* process_wildberries_url: where the handler is
    message,           \* process_wildberries_url: the URL and the sender's id
    llm_keywords,      \* process_wildberries_url: what extract_keywords returned
    replies,           \* process_wildberries_url: the calls of the bot API, in order
    rp,                \* async_retry: the decorator's arguments
    calls              \* async_retry: the locals of each running wrapper call

svcVars == <<pc, method, article_id, product_id, page, current_position, ret, pages,
             fetched, sleeps, http_attempts, retry_delays, last_http,
             last_result, events>>
anaVars == <<apc, product_url, user_id, keywords, kw, search_results,
             product_details, result>>
proxyVars == <<now, md5, proxy_cfg, issued>>
shardVars == <<shard>>
taskVars == <<tasks>>
llmVars == <<llm>>
botVars == <<bpc, message, llm_keywords, replies>>
extVars == <<anaVars, proxyVars, shardVars, taskVars, llmVars, botVars>>
retryVars == <<rp, calls>>
vars == <<svcVars, extVars, retryVars>>

(***************************************************************************)
(* Bounds of the model.                                                    *)
(***************************************************************************)
MaxPageSize == 2      \* products on one search page
MaxRetriesBound == 3  \* largest max_retries a decorator is given

(***************************************************************************)
(* Program constants.                                                      *)
(***************************************************************************)
MAX_SEARCH_PAGES == 5   \* config.MAX_SEARCH_PAGES
HTTP_OK == 200          \* the status _make_request accepts
PAGE_SLEEP_MS == 500    \* asyncio.sleep(0.5) between pages

ProductIds == {1, 2}

(***************************************************************************)
(* Product URLs.  The pattern of extract_article_id,                       *)
(* wildberries\.ru/catalog/(\d+)/detail\.aspx, finds a match in a text     *)
(* that holds the prefix, then at least one digit, then the suffix; a URL  *)
(* is the three parts the pattern looks at.                                *)
(***************************************************************************)
Url(pre, ds, suf) == [prefix |-> pre, digits |-> ds, suffix |-> suf]
Urls ==
    {Url(TRUE, ds, TRUE) : ds \in {<<1>>, <<2>>, <<0, 2>>, <<0>>, <<>>}}
        \cup {Url(FALSE, <<1>>, TRUE), Url(TRUE, <<1>>, FALSE)}

\* int(match.group(1)): the decimal value of a string of digits
RECURSIVE DigitsToInt(_)
DigitsToInt(ds) ==
    IF Len(ds) = 0 THEN 0
    ELSE 10 * DigitsToInt(SubSeq(ds, 1, Len(ds) - 1)) + ds[Len(ds)]

\* An Optional[int]
NoInt == [none |-> TRUE, int |-> 0]
SomeInt(n) == [none |-> FALSE, int |-> n]

(***************************************************************************)
(* Upstream data.  A JSON object is a record of the keys it has (keys)     *)
(* and the values under them; a value under a key the object lacks is a    *)
(* filler that the code never reads.                                       *)
(***************************************************************************)
Stub(i) == [keys |-> {"id"}, id |-> i]
StubNoId == [keys |-> {"name"}, id |-> 0]
Stubs == {Stub(i) : i \in ProductIds} \cup {StubNoId}

SeqsUpTo(S, n) == UNION {[1..k -> S] : k \in 0..n}

ProductLists == SeqsUpTo(Stubs, MaxPageSize)

\* {"data": {"products": [...]}}
PageBody(items) ==
    [keys |-> {"data"}, data_keys |-> {"products"}, products_null |-> FALSE,
     products |-> items]
\* {}
EmptyBody ==
    [keys |-> {}, data_keys |-> {}, products_null |-> FALSE, products |-> <<>>]
\* {"error": ...}: no "data" key
NoDataBody ==
    [keys |-> {"error"}, data_keys |-> {}, products_null |-> FALSE,
     products |-> <<>>]
\* {"data": {}}: no "products" key
NoProductsBody ==
    [keys |-> {"data"}, data_keys |-> {}, products_null |-> FALSE,
     products |-> <<>>]
\* {"data": {"products": null}}
NullProductsBody ==
    [keys |-> {"data"}, data_keys |-> {"products"}, products_null |-> TRUE,
     products |-> <<>>]

Bodies ==
    {PageBody(items) : items \in ProductLists}
        \cup {EmptyBody, NoDataBody, NoProductsBody, NullProductsBody}

\* What upstream does to one GET: an exception inside the try block
\* (exc), or a response with a status, a content type that is JSON or not,
\* and a body that parses as JSON (to json) or does not.
HttpException(e) ==
    [exc |-> e, status |-> 0, ctype_json |-> FALSE, parses |-> FALSE,
     json |-> EmptyBody]
HttpResponse(s, c, p, b) ==
    [exc |-> "none", status |-> s, ctype_json |-> c, parses |-> p, json |-> b]

HttpOutcomes ==
    {HttpException(e) : e \in {"ClientError", "TimeoutError"}}
        \cup {HttpResponse(s, TRUE, TRUE, EmptyBody) : s \in {404, 500}}
        \cup {HttpResponse(HTTP_OK, c, FALSE, EmptyBody) : c \in BOOLEAN}
        \cup {HttpResponse(HTTP_OK, c, TRUE, b) : c \in BOOLEAN, b \in Bodies}

(***************************************************************************)
(* Python values a method returns: None or a JSON object.                  *)
(***************************************************************************)
PyNone == [none |-> TRUE, json |-> EmptyBody]
PyJson(b) == [none |-> FALSE, json |-> b]

\* What a call gave its caller: nothing yet, a value, or an exception.
Pending == [kind |-> "pending", int |-> 0, val |-> PyNone, exc |-> "none"]
ReturnInt(n) == [kind |-> "int", int |-> n, val |-> PyNone, exc |-> "none"]
ReturnVal(v) == [kind |-> "value", int |-> 0, val |-> v, exc |-> "none"]
Raise(e) == [kind |-> "raise", int |-> 0, val |-> PyNone, exc |-> e]

(***************************************************************************)
(* PiaProxyService (src/src/services/proxy_service.py)                     *)
(***************************************************************************)
UserIds == {1, 2}

\* The values time.time() takes, in seconds: around the ends of the
\* one-minute and the two-minute windows
Clock == {0, 59, 60, 119, 120}

\* config.py lines 27, 35, 36, 47, 48: WB_USE_PROXY, PROXY_ENABLED,
\* PROXY_TIMEOUT_MINUTES, PIA_USERNAME and PIA_PASSWORD; a credential that
\* is not set is the empty string
ProxyConfigs ==
    [use_proxy : BOOLEAN, enabled : BOOLEAN, timeout_minutes : {1, 2},
     username : {"", "pia_user"}, password : {"", "pia_pass"}]
DefaultProxyConfig ==
    [use_proxy |-> FALSE, enabled |-> FALSE, timeout_minutes |-> 2,
     username |-> "", password |-> ""]

\* hashlib.md5(...).hexdigest()[:11] is a fixed function of its input of
\* which the program knows nothing; the model runs under each function of
\* a family, some of them with collisions.  A digest is a number below
\* NumDigests.
NumDigests == 7
Md5Functions == [a : {1, 3}, b : {1, 2}]
DefaultMd5 == [a |-> 3, b |-> 1]
Md5Hex11(input) ==
    (md5.a * input.user_id + md5.b * input.normalized_time) % NumDigests

\* line 34: int(timestamp / (60 * self.timeout_minutes))
NormalizedTime(timestamp) == timestamp \div (60 * proxy_cfg.timeout_minutes)

\* Variant of get_proxy_hash: the timestamp is not normalized
get_proxy_hash_of_instant(uid) ==
    [user_id |-> uid, normalized_time |-> now]

\* lines 32-37: f"{user_id}_{normalized_time}", as the pair it is made of
get_proxy_hash(uid) ==
    [user_id |-> uid, normalized_time |-> NormalizedTime(now)]

\* lines 39-52
generate_session_id(uid) == Md5Hex11(get_proxy_hash(uid))

\* An Optional proxy: None, or the proxy whose BasicAuth has the login
\* f"{username}-region-ru-sessid-{session_id}-sesstime-10080", as the
\* pair of its username and sessid, and the password
NoProxy == [none |-> TRUE, sessid |-> 0, username |-> "", password |-> ""]
ProxyWith(sessid) ==
    [none |-> FALSE, sessid |-> sessid,
     username |-> proxy_cfg.username, password |-> proxy_cfg.password]

\* Variant of get_proxy: the password is not tested
get_proxy_with_username(uid) ==
    IF ~proxy_cfg.enabled THEN NoProxy
    ELSE IF proxy_cfg.username = "" THEN NoProxy
    ELSE ProxyWith(generate_session_id(uid))

\* lines 54-75
get_proxy(uid) ==
    IF ~proxy_cfg.enabled THEN NoProxy
    ELSE IF proxy_cfg.username = "" \/ proxy_cfg.password = "" THEN NoProxy
    ELSE ProxyWith(generate_session_id(uid))

\* Variant of RequestProxy: a session of its own for each request
ProxyPerRequest(uid) ==
    IF proxy_cfg.use_proxy /\ get_proxy(uid) # NoProxy
    THEN ProxyWith((generate_session_id(uid) + Len(events)) % NumDigests)
    ELSE NoProxy

\* wildberries_service.py line 89
RequestProxy(uid) == IF proxy_cfg.use_proxy THEN get_proxy(uid) ELSE NoProxy

\* The entries of the history events: a request sent through a proxy at a
\* time, for page p of keyword number k; a sleep of ms milliseconds ended
RequestEvent(op, k, p) ==
    [kind |-> "request", op |-> op, kw |-> k, page |-> p, ms |-> 0,
     proxy |-> RequestProxy(user_id), at |-> now]
SleepEvent(op, ms) ==
    [kind |-> "sleep", op |-> op, kw |-> 0, page |-> 0, ms |-> ms,
     proxy |-> NoProxy, at |-> now]

proxyIdle ==
    /\ now = 0
    /\ md5 = DefaultMd5
    /\ proxy_cfg = DefaultProxyConfig
    /\ issued = <<>>

\* Time passes
Tick(t) ==
    /\ t > now
    /\ now' = t
    /\ UNCHANGED <<md5, proxy_cfg, issued>>
    /\ UNCHANGED <<svcVars, anaVars, shardVars, taskVars, llmVars,
                   botVars, retryVars>>

\* A call of generate_session_id(uid); the last two calls are remembered
GenerateSessionId(uid) ==
    /\ issued' = SubSeq(<<[user_id |-> uid, at |-> now,
                           sessid |-> generate_session_id(uid)]>> \o issued,
                        1, IF Len(issued) = 0 THEN 1 ELSE 2)
    /\ UNCHANGED <<now, md5, proxy_cfg>>
    /\ UNCHANGED <<svcVars, anaVars, shardVars, taskVars, llmVars,
                   botVars, retryVars>>

(***************************************************************************)
(* WildberriesService._resolve_basket_id                                   *)
(***************************************************************************)
Bound(b, code) == [bound |-> b, basket |-> code]

\* The branches of the if/elif chain, in the order of the source
BasketChain ==
    <<Bound(143, "01"), Bound(287, "02"), Bound(431, "03"), Bound(719, "04"),
      Bound(1007, "05"), Bound(1061, "06"), Bound(1115, "07"),
      Bound(1169, "08"), Bound(1313, "09"), Bound(1601, "10"),
      Bound(1655, "11"), Bound(1919, "12"), Bound(2045, "13"),
      Bound(2189, "14"), Bound(2405, "15"), Bound(2621, "16"),
      Bound(2837, "17"), Bound(3053, "18"), Bound(3269, "19"),
      Bound(3485, "20"), Bound(3701, "21"), Bound(3917, "22"),
      Bound(4133, "23"), Bound(4349, "24"), Bound(4565, "25")>>

\* Variant of InBranch: 0 <= s < bound
BelowBound(s, b) == s < b

\* lines 43-67: the test of one branch
InBranch(s, b) == s <= b

RECURSIVE ChainFrom(_, _)
ChainFrom(s, i) ==
    IF i > Len(BasketChain) THEN "26"
    ELSE IF InBranch(s, BasketChain[i].bound) THEN BasketChain[i].basket
    ELSE ChainFrom(s, i + 1)

\* lines 39-68; line 41: s = nmid // 100000, which rounds down
resolve_basket_id(nmid) == ChainFrom(nmid \div 100000, 1)

\* The arguments _resolve_basket_id is given: the ids at both ends of
\* every branch, a negative id, and ids past the last bound
ShardIds ==
    {BasketChain[i].bound * 100000 + d :
        i \in 1..Len(BasketChain), d \in {0, 99999, 100000}}
        \cup {-1, 0, 1, 456700000, 999999999}

shardIdle == shard = <<>>

\* A call of _resolve_basket_id(nmid); the last two calls are remembered
ResolveBasket(nmid) ==
    /\ shard' = SubSeq(<<[nmid |-> nmid,
                          basket |-> resolve_basket_id(nmid)]>> \o shard,
                       1, IF Len(shard) = 0 THEN 1 ELSE 2)
    /\ UNCHANGED <<svcVars, anaVars, proxyVars, taskVars, llmVars,
                   botVars, retryVars>>

(***************************************************************************)
(* WildberriesService._make_request                                        *)
(***************************************************************************)
\* One request as its caller sees it: the value returned or the exception
\* raised, the GETs it sent and the backoff delays it took.
RequestDone(v) == [raised |-> "none", value |-> v, attempts |-> 1, delays |-> 0]

\* Variants of OnRequestException: the exception reaches the caller; the
\* request is retried as under async_retry's defaults before it gives up.
PropagateRequestException(http) ==
    [raised |-> IF http.exc # "none" THEN http.exc ELSE "JSONDecodeError",
     value |-> PyNone, attempts |-> 1, delays |-> 0]
RetriedRequestException(http) ==
    [raised |-> "none", value |-> PyNone, attempts |-> 1 + 3, delays |-> 3]

\* lines 120-122: except Exception: print; return None
OnRequestException(http) == RequestDone(PyNone)

\* lines 117-119: a status other than 200
OnBadStatus(http) == RequestDone(PyNone)

\* lines 105-116: response.json(); on ContentTypeError json.loads(text).
\* A body that does not parse makes response.json() raise JSONDecodeError,
\* which line 108 does not catch and line 120 does; json.loads raises it at
\* line 113 and line 114 catches it.
OnOkStatus(http) ==
    IF http.ctype_json
    THEN IF http.parses THEN RequestDone(PyJson(http.json))
                        ELSE OnRequestException(http)
    ELSE IF http.parses THEN RequestDone(PyJson(http.json))
                        ELSE RequestDone(PyNone)

MakeRequest(http) ==
    IF http.exc # "none" THEN OnRequestException(http)
    ELSE IF http.status = HTTP_OK THEN OnOkStatus(http)
    ELSE OnBadStatus(http)

(***************************************************************************)
(* WildberriesService.extract_article_id, lines 21-26                      *)
(***************************************************************************)
extract_article_id(url) ==
    IF url.prefix /\ Len(url.digits) >= 1 /\ url.suffix
    THEN SomeInt(DigitsToInt(url.digits))
    ELSE NoInt

\* Variant of NoArticle: if article_id is None
ArticleIsNone(a) == a.none

\* not article_id: None and 0 are falsy
NoArticle(a) == a.none \/ a.int = 0

(***************************************************************************)
(* WildberriesService.find_product_position                                *)
(***************************************************************************)
\* not x, for x a value _make_request returns: None and {} are falsy
Falsy(v) == v.none \/ v.json.keys = {}

\* line 169
BreaksOnEnvelope(v) ==
    \/ Falsy(v)
    \/ "data" \notin v.json.keys
    \/ "products" \notin v.json.data_keys

\* lines 174-177: the walk over one page from item i on, the counter at pos
RECURSIVE WalkProducts(_, _, _, _)
WalkProducts(products, i, pos, target) ==
    IF i > Len(products) THEN [outcome |-> "end", pos |-> pos]
    ELSE IF "id" \notin products[i].keys
         THEN [outcome |-> "KeyError", pos |-> pos + 1]
    ELSE IF products[i].id = target
         THEN [outcome |-> "return", pos |-> pos + 1]
    ELSE WalkProducts(products, i + 1, pos + 1, target)

\* Variant of WalkStart: a rank within the page
WalkStartPerPage(pos) == 0

\* line 175: the counter a page's walk starts from
WalkStart(pos) == pos

\* Variant of BreaksOnEmpty: an empty page does not end the scan
ContinuesOnEmpty(products) == FALSE

\* line 179
BreaksOnEmpty(products) == Len(products) = 0

\* Variant of LastPage: range(1, max_search_pages)
LastPageOneShort(p) == p >= MAX_SEARCH_PAGES - 1

\* line 165: page was the last value of range(1, max_search_pages + 1)
LastPage(p) == p >= MAX_SEARCH_PAGES

\* Variant of NextPage: the same page is requested again
SamePage(p) == p

\* line 165: the value of page in the next iteration
NextPage(p) == p + 1

\* lines 167-182: one iteration of the loop, up to its await or its exit
PageStep(v, pos, target) ==
    IF BreaksOnEnvelope(v) THEN [outcome |-> "break", pos |-> pos]
    ELSE IF v.json.products_null
         THEN [outcome |-> "TypeError", pos |-> pos]
    ELSE LET w == WalkProducts(v.json.products, 1, WalkStart(pos), target)
         IN  IF w.outcome # "end" THEN w
             ELSE IF BreaksOnEmpty(v.json.products)
                  THEN [outcome |-> "break", pos |-> w.pos]
             ELSE [outcome |-> "sleep", pos |-> w.pos]

svcIdle ==
    /\ pc = "idle"
    /\ method = "none"
    /\ article_id = NoInt
    /\ product_id = 0
    /\ page = 0
    /\ current_position = 0
    /\ ret = Pending
    /\ pages = <<>>
    /\ fetched = <<>>
    /\ sleeps = <<>>
    /\ http_attempts = 0
    /\ retry_delays = 0
    /\ last_http = HttpException("none")
    /\ last_result = RequestDone(PyNone)
    /\ events = <<>>

\* lines 124-129: get_product_data, up to its await
GetProductDataStart(url) ==
    /\ method' = "get_product_data"
    /\ article_id' = extract_article_id(url)
    /\ IF NoArticle(article_id')
       THEN pc' = "done" /\ ret' = ReturnVal(PyNone)
       ELSE pc' = "card" /\ ret' = Pending
    /\ product_id' = 0
    /\ current_position' = 0
    /\ page' = 0
    /\ pages' = <<>>
    /\ fetched' = <<>>
    /\ sleeps' = <<>>
    /\ http_attempts' = 0
    /\ retry_delays' = 0
    /\ last_http' = HttpException("none")
    /\ last_result' = RequestDone(PyNone)
    /\ events' = <<>>

\* A call of get_product_data
CallGetProductData(url) ==
    /\ pc \in {"idle", "done"}
    /\ GetProductDataStart(url)
    /\ UNCHANGED <<retryVars, extVars>>

\* line 130: return await self._make_request(card_url, user_id)
CardFetch(http) ==
    /\ pc = "card"
    /\ LET r == MakeRequest(http)
       IN  /\ http_attempts' = http_attempts + r.attempts
           /\ retry_delays' = retry_delays + r.delays
           /\ last_http' = http
           /\ last_result' = r
           /\ ret' = IF r.raised # "none" THEN Raise(r.raised)
                     ELSE ReturnVal(r.value)
    /\ events' = Append(events, RequestEvent("card", 0, 0))
    /\ pc' = "done"
    /\ UNCHANGED <<method, article_id, product_id, page, current_position,
                   pages, fetched, sleeps>>
    /\ UNCHANGED <<retryVars, extVars>>

\* lines 162-165: the call, up to the first await
CallFindProductPosition(target) ==
    /\ pc \in {"idle", "done"}
    /\ method' = "find_product_position"
    /\ article_id' = NoInt
    /\ product_id' = target
    /\ current_position' = 0
    /\ page' = 1
    /\ pc' = "fetch"
    /\ ret' = Pending
    /\ pages' = <<>>
    /\ fetched' = <<>>
    /\ sleeps' = <<>>
    /\ http_attempts' = 0
    /\ retry_delays' = 0
    /\ last_http' = HttpException("none")
    /\ last_result' = RequestDone(PyNone)
    /\ events' = <<>>
    /\ UNCHANGED <<retryVars, extVars>>

\* lines 166-182: the request of one page answers, and the page is walked
FetchPage(http) ==
    /\ pc = "fetch"
    /\ LET r == MakeRequest(http)
           step == PageStep(r.value, current_position, product_id)
       IN  /\ fetched' = Append(fetched, page)
           /\ events' = Append(events, RequestEvent("search", kw, page))
           /\ http_attempts' = http_attempts + r.attempts
           /\ retry_delays' = retry_delays + r.delays
           /\ last_http' = http
           /\ last_result' = r
           /\ IF r.raised # "none"
              THEN /\ pages' = pages
                   /\ current_position' = current_position
                   /\ pc' = "done"
                   /\ ret' = Raise(r.raised)
              ELSE /\ pages' = Append(pages, r.value)
                   /\ current_position' = step.pos
                   /\ pc' = IF step.outcome = "sleep" THEN "sleep" ELSE "done"
                   /\ ret' = CASE step.outcome = "return" -> ReturnInt(step.pos)
                               [] step.outcome = "break" -> ReturnInt(-1)
                               [] step.outcome = "sleep" -> Pending
                               [] OTHER -> Raise(step.outcome)
    /\ UNCHANGED <<method, article_id, product_id, page, sleeps>>
    /\ UNCHANGED <<retryVars, extVars>>

\* lines 182-184 and 165: the sleep ends; the loop goes on or is exhausted
SleepPage ==
    /\ pc = "sleep"
    /\ sleeps' = Append(sleeps, PAGE_SLEEP_MS)
    /\ events' = Append(events, SleepEvent("page", PAGE_SLEEP_MS))
    /\ IF LastPage(page)
       THEN /\ pc' = "done"
            /\ ret' = ReturnInt(-1)
            /\ page' = page
       ELSE /\ pc' = "fetch"
            /\ ret' = ret
            /\ page' = NextPage(page)
    /\ UNCHANGED <<method, article_id, product_id, current_position, pages,
                   fetched,
                   http_attempts, retry_delays, last_http, last_result>>
    /\ UNCHANGED <<retryVars, extVars>>

(***************************************************************************)
(* WildberriesService.get_product_details                                  *)
(***************************************************************************)
\* The body of a detail response: as a search body, with products that
\* carry the fields of lines 147-157, and with "data": null told apart
DetailBody(ks, dnull, dks, pnull, items) ==
    [keys |-> ks, data_null |-> dnull, data_keys |-> dks,
     products_null |-> pnull, products |-> items]

\* One size of a product: {"price": {"product": p}}, or less
Size(ks, pks, p) == [keys |-> ks, price_keys |-> pks, product |-> p]

\* {"id": 1, "name": ..., "brand": ..., "reviewRating": 4, "feedbacks": 10,
\*  "sizes": [{"price": {"product": 159990}}]}
FullProduct ==
    [keys |-> {"id", "name", "brand", "reviewRating", "feedbacks", "sizes"},
     id |-> 1, name |-> [text |-> "Shoes", n |-> 0], brand |-> "Acme",
     reviewRating |-> 4, feedbacks |-> 10,
     sizes |-> <<Size({"price"}, {"product"}, 159990)>>]

\* A product with the keys ks only, and the sizes given
PartialProduct(ks, ss) ==
    [keys |-> ks, id |-> 0, name |-> [text |-> "", n |-> 0], brand |-> "",
     reviewRating |-> 0, feedbacks |-> 0, sizes |-> ss]

\* FullProduct with the sizes given, or without the key sizes
WithSizes(ss) == [FullProduct EXCEPT !.sizes = ss]
WithoutSizes == [FullProduct EXCEPT !.keys = @ \ {"sizes"}, !.sizes = <<>>]

DetailProducts ==
    {FullProduct,
     WithSizes(<<Size({"price"}, {"product"}, 129900)>>),
     WithoutSizes,
     PartialProduct({}, <<>>),
     PartialProduct({"sizes"}, <<>>),
     PartialProduct({"sizes"}, <<Size({}, {}, 0)>>),
     PartialProduct({"sizes"}, <<Size({"price"}, {}, 0)>>)}

DetailBodies ==
    {DetailBody({"data"}, FALSE, {"products"}, FALSE, <<p>>) :
        p \in DetailProducts}
        \cup {DetailBody({}, FALSE, {}, FALSE, <<>>),
              DetailBody({"error"}, FALSE, {}, FALSE, <<>>),
              DetailBody({"data"}, TRUE, {}, FALSE, <<>>),
              DetailBody({"data"}, FALSE, {}, FALSE, <<>>),
              DetailBody({"data"}, FALSE, {"products"}, TRUE, <<>>),
              DetailBody({"data"}, FALSE, {"products"}, FALSE, <<>>)}

\* What upstream does to the GET of the detail URL
DetailOutcomes ==
    {HttpException("TimeoutError"),
     HttpResponse(404, TRUE, TRUE, EmptyBody),
     HttpResponse(HTTP_OK, TRUE, FALSE, EmptyBody)}
        \cup {HttpResponse(HTTP_OK, TRUE, TRUE, b) : b \in DetailBodies}

\* A float that is a number of hundredths
Hundredths(p) == [units |-> p \div 100, hundredths |-> p % 100]

\* models.py: ProductDetails
ProductDetails(id, name, brand, price, rating, feedbacks, image_url, url) ==
    [id |-> id, name |-> name, brand |-> brand, price |-> price,
     rating |-> rating, feedbacks |-> feedbacks, image_url |-> image_url,
     url |-> url]

\* f"Tovar {article_id}", the word being in Russian in the source
DefaultName(id) == [text |-> "Tovar", n |-> id]

\* lines 70-75: the URL, as the values it is made of; "" is no URL
get_image_url(id) ==
    [basket |-> resolve_basket_id(id), vol |-> id \div 100000,
     part |-> id \div 1000, id |-> id]
NoImageUrl == [basket |-> "", vol |-> 0, part |-> 0, id |-> 0]

\* d.get(key, default)
Get(d, key, value, default) == IF key \in d.keys THEN value ELSE default

\* Variant of PriceOf: the amount in minor units, not divided
MinorUnits(product) ==
    IF /\ "sizes" \in product.keys
       /\ Len(product.sizes) > 0
       /\ "price" \in product.sizes[1].keys
       /\ "product" \in product.sizes[1].price_keys
    THEN [units |-> product.sizes[1].product, hundredths |-> 0]
    ELSE Hundredths(0)

\* lines 146-149; a price entry is a JSON object
PriceOf(product) ==
    IF /\ "sizes" \in product.keys
       /\ Len(product.sizes) > 0
       /\ "price" \in product.sizes[1].keys
    THEN Hundredths(Get([keys |-> product.sizes[1].price_keys], "product",
                        product.sizes[1].product, 0))
    ELSE Hundredths(0)

\* lines 144-160
DetailsOf(product, id, url) ==
    ProductDetails(Get(product, "id", product.id, id),
                   Get(product, "name", product.name, DefaultName(id)),
                   Get(product, "brand", product.brand, ""),
                   PriceOf(product),
                   Get(product, "reviewRating", product.reviewRating, 0),
                   Get(product, "feedbacks", product.feedbacks, 0),
                   get_image_url(id), url)

\* An Optional[ProductDetails], or the exception raised in its place
NoDetails ==
    [raised |-> "none", none |-> TRUE,
     details |-> ProductDetails(0, DefaultName(0), "", Hundredths(0), 0, 0,
                                NoImageUrl, Url(FALSE, <<>>, FALSE))]
SomeDetails(d) == [raised |-> "none", none |-> FALSE, details |-> d]
DetailsRaise(e) == [NoDetails EXCEPT !.raised = e]

\* lines 141-160: what get_product_details makes of the value v that
\* _make_request returned.  'products' not in None raises TypeError.
get_product_details(v, id, url) ==
    IF Falsy(v) \/ "data" \notin v.json.keys THEN NoDetails
    ELSE IF v.json.data_null THEN DetailsRaise("TypeError")
    ELSE IF "products" \notin v.json.data_keys THEN NoDetails
    ELSE IF v.json.products_null \/ Len(v.json.products) = 0 THEN NoDetails
    ELSE SomeDetails(DetailsOf(v.json.products[1], id, url))

(***************************************************************************)
(* WildberriesService.analyze_product_keywords                             *)
(***************************************************************************)
KEYWORD_SLEEP_MS == 300   \* asyncio.sleep(0.3) after a keyword

\* The keyword lists an analysis is given
KeywordLists ==
    {<<>>, <<"k1">>, <<"k1", "k2">>, <<"k2", "k1">>, <<"k1", "k1">>}

\* The search pages upstream answers an analysis with
AnalysisPages ==
    {<<>>, <<Stub(1)>>, <<Stub(2), Stub(2)>>, <<Stub(2), Stub(1)>>,
     <<StubNoId>>}
AnalysisOutcomes ==
    {HttpException("TimeoutError")}
        \cup {HttpResponse(HTTP_OK, TRUE, TRUE, PageBody(items)) :
                items \in AnalysisPages}

\* models.py: SearchResult, KeywordAnalysisResult
SearchResult(keyword, position) ==
    [keyword |-> keyword, product_position |-> position]
KeywordAnalysisResult(product, found, results) ==
    [kind |-> "value", product |-> product, found_keywords |-> found,
     search_results |-> results, exc |-> "none"]
NoResult == [KeywordAnalysisResult(NoDetails.details, <<>>, <<>>)
                EXCEPT !.kind = "pending"]
ResultRaise(e) == [NoResult EXCEPT !.kind = "raise", !.exc = e]

\* lines 191-200
PlaceholderDetails(url) ==
    ProductDetails(0, [text |-> "Tovar ne naiden", n |-> 0], "",
                   Hundredths(0), 0, 0, NoImageUrl, url)

\* Variant of PlaceholderKeywords: the keywords passed in
EchoedKeywords(kws) == kws

\* lines 203-204: found_keywords=[], search_results=[]
PlaceholderKeywords(kws) == <<>>

\* lines 211-220
FallbackDetails(id, url) ==
    ProductDetails(id, DefaultName(id), "", Hundredths(0), 0, 0,
                   get_image_url(id), url)

\* Variant of PositionOrNone: the scan's return value as it is
PositionAsReturned(position) == SomeInt(position)

\* line 230: position if position > 0 else None
PositionOrNone(position) ==
    IF position > 0 THEN SomeInt(position) ELSE NoInt

\* Variant of FoundKeywords: each keyword once
RECURSIVE WithoutRepeats(_)
WithoutRepeats(kws) ==
    IF Len(kws) = 0 THEN <<>>
    ELSE LET front == WithoutRepeats(SubSeq(kws, 1, Len(kws) - 1))
             last == kws[Len(kws)]
         IN  IF \E i \in 1..Len(front) : front[i] = last
             THEN front ELSE Append(front, last)

\* line 238: found_keywords=keywords
FoundKeywords(kws) == kws

\* Variant of AfterKeywordSleep: no delay after a keyword
NoKeywordSleep(log) == log

\* line 234: await asyncio.sleep(0.3)
AfterKeywordSleep(log) == Append(log, SleepEvent("keyword", KEYWORD_SLEEP_MS))

\* Variant of FirstStep: the scans start while the details are awaited
ScanBesideDetail(kws) == IF Len(kws) > 0 THEN "scan" ELSE "detail"

\* lines 207-208: the first await of a call with an article id
FirstStep(kws) == "detail"

anaIdle ==
    /\ apc = "idle"
    /\ product_url = Url(FALSE, <<>>, FALSE)
    /\ user_id = 1
    /\ keywords = <<>>
    /\ kw = 0
    /\ search_results = <<>>
    /\ product_details = NoDetails
    /\ result = NoResult

\* line 225 and lines 162-165: find_product_position(keywords[k], ...) is
\* called and runs up to its first await
EnterScan(k) ==
    /\ kw' = k
    /\ apc' = "scan"
    /\ pc' = "fetch"
    /\ product_id' = article_id'.int
    /\ current_position' = 0
    /\ page' = 1
    /\ ret' = Pending
    /\ pages' = <<>>
    /\ fetched' = <<>>
    /\ sleeps' = <<>>

\* The scanner's variables are left as they are
NoScan ==
    UNCHANGED <<pc, product_id, current_position, page, ret, pages, fetched,
                sleeps>>

\* lines 236-240
ReturnResult ==
    /\ apc' = "done"
    /\ result' = KeywordAnalysisResult(product_details'.details,
                                       FoundKeywords(keywords'),
                                       search_results')

\* lines 186-208: the call, up to its return or its first await
AnalyzeStart(url, kws, uid) ==
    /\ method' = "analyze_product_keywords"
    /\ product_url' = url
    /\ keywords' = kws
    /\ user_id' = uid
    /\ article_id' = extract_article_id(url)
    /\ search_results' = <<>>
    /\ events' = <<>>
    /\ http_attempts' = 0
    /\ retry_delays' = 0
    /\ last_http' = HttpException("none")
    /\ last_result' = RequestDone(PyNone)
    /\ IF NoArticle(article_id')
       THEN /\ product_details' = SomeDetails(PlaceholderDetails(url))
            /\ apc' = "done"
            /\ kw' = 0
            /\ result' = KeywordAnalysisResult(product_details'.details,
                                               PlaceholderKeywords(kws),
                                               PlaceholderKeywords(kws))
            /\ pc' = "idle"
            /\ product_id' = 0
            /\ current_position' = 0
            /\ page' = 0
            /\ ret' = Pending
            /\ pages' = <<>>
            /\ fetched' = <<>>
            /\ sleeps' = <<>>
       ELSE /\ product_details' = NoDetails
            /\ result' = NoResult
            /\ IF FirstStep(kws) = "detail"
               THEN /\ apc' = "detail"
                    /\ kw' = 0
                    /\ pc' = "idle"
                    /\ product_id' = 0
                    /\ current_position' = 0
                    /\ page' = 0
                    /\ ret' = Pending
                    /\ pages' = <<>>
                    /\ fetched' = <<>>
                    /\ sleeps' = <<>>
               ELSE EnterScan(1)

\* A call of analyze_product_keywords
CallAnalyze(url, kws, uid) ==
    /\ apc \in {"idle", "done"}
    /\ pc \in {"idle", "done"}
    /\ AnalyzeStart(url, kws, uid)
    /\ UNCHANGED <<proxyVars, shardVars, taskVars, llmVars, botVars,
                   retryVars>>

\* lines 208-225 and 132-160: the request of get_product_details answers;
\* the details are made, or the fallback is; the loop is entered
DetailFetch(http) ==
    /\ apc = "detail"
    /\ LET r == MakeRequest(http)
           d == get_product_details(r.value, article_id.int, product_url)
       IN  /\ events' = Append(events, RequestEvent("detail", 0, 0))
           /\ http_attempts' = http_attempts + r.attempts
           /\ retry_delays' = retry_delays + r.delays
           /\ last_http' = http
           /\ last_result' = r
           /\ UNCHANGED <<method, article_id, product_url, user_id, keywords,
                          search_results>>
           /\ IF d.raised # "none"
              THEN /\ apc' = "done"
                   /\ result' = ResultRaise(d.raised)
                   /\ product_details' = product_details
                   /\ kw' = kw
                   /\ NoScan
              ELSE /\ product_details' =
                        IF d.none
                        THEN SomeDetails(FallbackDetails(article_id.int,
                                                         product_url))
                        ELSE d
                   /\ IF Len(keywords) = 0
                      THEN ReturnResult /\ kw' = kw /\ NoScan
                      ELSE EnterScan(1) /\ result' = result
    /\ UNCHANGED <<proxyVars, shardVars, taskVars, llmVars, botVars,
                   retryVars>>

\* lines 225-234: find_product_position has returned, or has raised; its
\* result is appended and the sleep of line 234 starts
ScanReturns ==
    /\ apc = "scan"
    /\ pc = "done"
    /\ IF ret.kind = "raise"
       THEN /\ apc' = "done"
            /\ result' = ResultRaise(ret.exc)
            /\ search_results' = search_results
       ELSE /\ apc' = "kwsleep"
            /\ result' = result
            /\ search_results' =
                  Append(search_results,
                         SearchResult(keywords[kw], PositionOrNone(ret.int)))
    /\ UNCHANGED <<svcVars, product_url, user_id, keywords, kw,
                   product_details>>
    /\ UNCHANGED <<proxyVars, shardVars, taskVars, llmVars, botVars,
                   retryVars>>

\* lines 234-240 and 224: the sleep ends; the next keyword's scan starts,
\* or the result is returned
SleepKeyword ==
    /\ apc = "kwsleep"
    /\ events' = AfterKeywordSleep(events)
    /\ UNCHANGED <<method, article_id, product_url, user_id, keywords,
                   search_results, product_details, http_attempts,
                   retry_delays, last_http, last_result>>
    /\ IF kw < Len(keywords)
       THEN EnterScan(kw + 1) /\ result' = result
       ELSE ReturnResult /\ kw' = kw /\ NoScan
    /\ UNCHANGED <<proxyVars, shardVars, taskVars, llmVars, botVars,
                   retryVars>>

(***************************************************************************)
(* process_wildberries_url (src/src/bot/bot.py)                            *)
(***************************************************************************)
MAX_POSITION_LIMIT == 500   \* config.MAX_POSITION_LIMIT

\* The strings of line 98, which are in Russian in the source
MarkerProcessing == "Oshibka obrabotki kliuchevykh slov"
MarkerFetching == "Oshibka polucheniia kliuchevykh slov"

\* What extract_keywords returns: a list that is not empty
\* (llm_service.py lines 173-175), of whatever strings the LLM wrote
LlmKeywordLists ==
    (KeywordLists \ {<<>>})
        \cup {<<MarkerProcessing>>, <<"k1", MarkerFetching>>}

\* What upstream does to the GET of the card URL; {} is falsy
CardBody ==
    [keys |-> {"imt_name"}, data_keys |-> {}, products_null |-> FALSE,
     products |-> <<>>]
CardOutcomes ==
    {HttpException("ClientError"),
     HttpResponse(404, TRUE, TRUE, EmptyBody),
     HttpResponse(HTTP_OK, TRUE, TRUE, EmptyBody),
     HttpResponse(HTTP_OK, TRUE, TRUE, CardBody)}

\* The calls of the bot API: message.answer, answer_photo,
\* edit_message_text, delete_message, send_chat_action
BotCall(call, text) == [call |-> call, text |-> text, lines |-> <<>>]

\* line 134: position if position else f"nizhe {position_limit}"
PositionText(p) ==
    IF p.none \/ p.int = 0
    THEN [below |-> TRUE, n |-> MAX_POSITION_LIMIT]
    ELSE [below |-> FALSE, n |-> p.int]

\* lines 132-135
ResultLines(results) ==
    [i \in 1..Len(results) |->
        [keyword |-> results[i].keyword,
         position |-> PositionText(results[i].product_position)]]

\* Variant of HasMarker: only the first string is looked for
HasFirstMarker(kws) == \E i \in 1..Len(kws) : kws[i] = MarkerProcessing

\* line 98: "..." in keywords or "..." in keywords, keywords being a list
HasMarker(kws) ==
    \/ \E i \in 1..Len(kws) : kws[i] = MarkerProcessing
    \/ \E i \in 1..Len(kws) : kws[i] = MarkerFetching

NoMessage == [url |-> Url(FALSE, <<>>, FALSE), user |-> 1]

botIdle ==
    /\ bpc = "idle"
    /\ message = NoMessage
    /\ llm_keywords = <<>>
    /\ replies = <<>>

\* No method of the service is called: nothing of it runs, and the
\* histories of the handler are empty
NoServiceCall ==
    /\ method' = "none"
    /\ pc' = "idle"
    /\ article_id' = NoInt
    /\ product_id' = 0
    /\ page' = 0
    /\ current_position' = 0
    /\ ret' = Pending
    /\ pages' = <<>>
    /\ fetched' = <<>>
    /\ sleeps' = <<>>
    /\ http_attempts' = 0
    /\ retry_delays' = 0
    /\ last_http' = HttpException("none")
    /\ last_result' = RequestDone(PyNone)
    /\ events' = <<>>

\* lines 56-74 and 124-130: the handler, up to the await of the card
BotMessage(url, uid) ==
    /\ bpc \in {"idle", "done"}
    /\ pc \in {"idle", "done"}
    /\ apc \in {"idle", "done"}
    /\ message' = [url |-> url, user |-> uid]
    /\ llm_keywords' = <<>>
    /\ user_id' = uid
    /\ apc' = "idle"
    /\ product_url' = Url(FALSE, <<>>, FALSE)
    /\ keywords' = <<>>
    /\ kw' = 0
    /\ search_results' = <<>>
    /\ product_details' = NoDetails
    /\ result' = NoResult
    /\ IF NoArticle(extract_article_id(url))
       THEN /\ replies' = <<BotCall("send_chat_action", "typing"),
                            BotCall("answer", "invalid link")>>
            /\ bpc' = "done"
            /\ NoServiceCall
       ELSE /\ replies' = <<BotCall("send_chat_action", "typing"),
                            BotCall("answer", "processing")>>
            /\ bpc' = "data"
            /\ GetProductDataStart(url)
    /\ UNCHANGED <<proxyVars, shardVars, taskVars, llmVars, retryVars>>

\* Variant of NoProductData: the test of lines 75-78 is left out
AnyProductData(v) == FALSE

\* line 75: if not product_data
NoProductData(v) == Falsy(v)

\* lines 74-88: get_product_data has returned
BotProductData ==
    /\ bpc = "data"
    /\ pc = "done"
    /\ IF NoProductData(ret.val)
       THEN /\ replies' = replies \o <<BotCall("answer", "no data"),
                                       BotCall("delete_message", "")>>
            /\ bpc' = "done"
       ELSE /\ replies' =
                  Append(replies, BotCall("edit_message_text", "keywords"))
            /\ bpc' = "llm"
    /\ UNCHANGED <<message, llm_keywords>>
    /\ UNCHANGED <<svcVars, anaVars, proxyVars, shardVars, taskVars, llmVars,
                   retryVars>>

\* lines 88-101 and 186-208: extract_keywords has returned kws; the
\* analysis is skipped, or is called and runs up to its first await
BotKeywords(kws) ==
    /\ bpc = "llm"
    /\ llm_keywords' = kws
    /\ message' = message
    /\ IF HasMarker(kws)
       THEN /\ replies' = replies \o
                  <<BotCall("edit_message_text", "searching"),
                    BotCall("delete_message", ""),
                    BotCall("answer", "analysis failed")>>
            /\ bpc' = "done"
            /\ UNCHANGED <<svcVars, anaVars>>
       ELSE /\ replies' =
                  Append(replies, BotCall("edit_message_text", "searching"))
            /\ bpc' = "analysis"
            /\ AnalyzeStart(message.url, kws, message.user)
    /\ UNCHANGED <<proxyVars, shardVars, taskVars, llmVars, retryVars>>

\* lines 88 and 140-147: extract_keywords has raised
BotKeywordsRaise ==
    /\ bpc = "llm"
    /\ replies' = replies \o <<BotCall("delete_message", ""),
                               BotCall("answer", "error")>>
    /\ bpc' = "done"
    /\ UNCHANGED <<message, llm_keywords>>
    /\ UNCHANGED <<svcVars, anaVars, proxyVars, shardVars, taskVars, llmVars,
                   retryVars>>

\* lines 101-147: analyze_product_keywords has returned or raised; the
\* photo is sent (photo_ok) or is not and the caption is sent alone
BotAnalysis(photo_ok) ==
    /\ bpc = "analysis"
    /\ apc = "done"
    /\ replies' =
          IF result.kind = "raise"
          THEN replies \o <<BotCall("delete_message", ""),
                            BotCall("answer", "error")>>
          ELSE replies \o
               <<BotCall("delete_message", ""),
                 IF photo_ok THEN BotCall("answer_photo", "product")
                             ELSE BotCall("answer", "product"),
                 [BotCall("answer", "results") EXCEPT
                     !.lines = ResultLines(result.search_results)]>>
    /\ bpc' = "done"
    /\ UNCHANGED <<message, llm_keywords>>
    /\ UNCHANGED <<svcVars, anaVars, proxyVars, shardVars, taskVars, llmVars,
                   retryVars>>

(***************************************************************************)
(* async_retry (src/src/utils/retry.py)                                    *)
(***************************************************************************)
\* The decorator's arguments.  Backoff times are in milliseconds.
RetryConfigs ==
    [max_retries : 0..MaxRetriesBound,
     initial_backoff : {1000, 2000},
     max_backoff : {3000, 60000},
     backoff_factor : {1, 2},
     jitter : BOOLEAN,
     retryable_exceptions : {{"Exception"}, {"ClientError", "TimeoutError"}}]

\* retry.py lines 13-20: the defaults, of which the service model's idle
\* decorator is an instance
DefaultRetryConfig ==
    [max_retries |-> 3, initial_backoff |-> 2000,
     max_backoff |-> 60000, backoff_factor |-> 2, jitter |-> TRUE,
     retryable_exceptions |-> {"Exception"}]

\* What the wrapped function may raise, and each exception's classes
Exceptions == {"ClientError", "TimeoutError", "ValueError", "CancelledError"}
ClassesOf(e) ==
    IF e = "CancelledError" THEN {"CancelledError", "BaseException"}
    ELSE {e, "Exception", "BaseException"}

\* isinstance(e, classes)
IsInstance(e, classes) == ClassesOf(e) \cap classes # {}

\* 0.8 + 0.4 * random.random(), in percent: the ends of its range
JitterPercents == {80, 120}

\* The wrapper calls that run concurrently
CallIds == {"a", "b"}

\* The decorators under which two calls are run concurrently
ConcurrentConfigs ==
    {cfg \in RetryConfigs :
        /\ cfg.initial_backoff = 1000
        /\ cfg.max_backoff = 3000
        /\ cfg.backoff_factor = 2
        /\ cfg.retryable_exceptions = {"ClientError", "TimeoutError"}}

Min(a, b) == IF a <= b THEN a ELSE b

IdleCall ==
    [pc |-> "idle", retries |-> 0, backoff |-> 0, attempts |-> 0,
     failures |-> 0, last_failure |-> "none", delays |-> <<>>,
     outcome |-> "none", exc |-> "none"]

\* Variant of InitialRetries: one counter for all calls of the function
SharedRetries(c) ==
    LET others == {calls[d].retries : d \in CallIds \ {c}}
    IN  CHOOSE m \in others : \A x \in others : x <= m

\* line 35: retries = 0
InitialRetries(c) == 0

\* line 36: backoff = initial_backoff
InitialBackoff(c) == rp.initial_backoff

\* Variant of Retryable: except BaseException
CatchesAll(e) == TRUE

\* line 41: except retryable_exceptions
Retryable(e) == IsInstance(e, rp.retryable_exceptions)

\* Variant of Exhausted: if retries >= max_retries
ExhaustedOneEarly(retries) == retries >= rp.max_retries

\* line 43: if retries > max_retries
Exhausted(retries) == retries > rp.max_retries

\* Variant of NextBackoff: no cap
UncappedBackoff(backoff) == backoff * rp.backoff_factor

\* line 48: backoff = min(backoff * backoff_factor, max_backoff)
NextBackoff(backoff) == Min(backoff * rp.backoff_factor, rp.max_backoff)

\* lines 51-52: backoff = backoff * (0.8 + 0.4 * random.random())
Jittered(backoff, percent) ==
    IF rp.jitter THEN (backoff * percent) \div 100 ELSE backoff

\* lines 34-38: a call of the wrapped function starts
Started(c) ==
    [IdleCall EXCEPT !.pc = "calling",
                     !.retries = InitialRetries(c),
                     !.backoff = InitialBackoff(c)]

Invoke(c) ==
    /\ calls[c].pc \in {"idle", "done"}
    /\ calls' = [calls EXCEPT ![c] = Started(c)]
    /\ UNCHANGED <<rp, svcVars, extVars>>

\* line 40: return await func(*args, **kwargs), func returning
AfterReturn(me) ==
    [me EXCEPT !.pc = "done", !.attempts = @ + 1, !.outcome = "returned"]

FuncReturns(c) ==
    /\ calls[c].pc = "calling"
    /\ calls' = [calls EXCEPT ![c] = AfterReturn(@)]
    /\ UNCHANGED <<rp, svcVars, extVars>>

\* lines 40-56: func raises e; percent is the jitter drawn at line 52
AfterRaise(me, e, percent) ==
    LET failed == [me EXCEPT !.attempts = @ + 1,
                             !.failures = @ + 1,
                             !.last_failure = e]
        propagated == [failed EXCEPT !.pc = "done", !.outcome = "raised",
                                     !.exc = e]
    IN  IF ~Retryable(e) THEN propagated
        ELSE IF Exhausted(me.retries + 1)
             THEN [propagated EXCEPT !.retries = @ + 1]
        ELSE [failed EXCEPT
                 !.retries = @ + 1,
                 !.backoff = Jittered(NextBackoff(@), percent),
                 !.pc = "sleeping"]

FuncRaises(c, e, percent) ==
    /\ calls[c].pc = "calling"
    /\ calls' = [calls EXCEPT ![c] = AfterRaise(@, e, percent)]
    /\ UNCHANGED <<rp, svcVars, extVars>>

\* line 58: await asyncio.sleep(backoff) ends
SleepDone(c) ==
    /\ calls[c].pc = "sleeping"
    /\ calls' = [calls EXCEPT ![c].pc = "calling",
                              ![c].delays = Append(@, calls[c].backoff)]
    /\ UNCHANGED <<rp, svcVars, extVars>>

retryIdle ==
    /\ rp = DefaultRetryConfig
    /\ calls = [c \in CallIds |-> IdleCall]

(***************************************************************************)
(* Concurrent calls of analyze_product_keywords on the one wb_service of   *)
(* bot.py line 20.  The instance holds region, use_proxy, max_search_pages *)
(* and proxy_service, assigned in __init__ and nowhere else; everything    *)
(* else a call works with is a local of its coroutine, kept here in the    *)
(* call's entry of tasks.  The calls interleave at their awaits.           *)
(***************************************************************************)
TaskIds == {"a", "b"}

\* The locals of a call that has not started.  heard is the history of
\* what upstream answered this call, and overlapped that of whether one
\* of the answers came while another call was between its start and its
\* return.
IdleTask ==
    [at |-> "idle", product_url |-> Url(FALSE, <<>>, FALSE),
     keywords |-> <<>>, article_id |-> NoInt, product_details |-> NoDetails,
     kw |-> 0, page |-> 0, current_position |-> 0, search_results |-> <<>>,
     result |-> NoResult, heard |-> <<>>, overlapped |-> FALSE]

\* Another call than c is between its start and its return
OthersRunning(c) ==
    \E d \in TaskIds \ {c} : tasks[d].at \notin {"idle", "done"}

Hear(c, http) ==
    [tasks[c] EXCEPT !.heard = Append(@, http),
                     !.overlapped = @ \/ OthersRunning(c)]

\* Variant of ScanStart: the counter is an attribute of the instance, and
\* a scan goes on from where the scan of another call is
InstanceCounter(c) ==
    LET others == {tasks[d].current_position : d \in TaskIds \ {c}}
    IN  CHOOSE m \in others : \A x \in others : x <= m

\* line 163: current_position = 0
ScanStart(c) == 0

\* lines 225 and 162-166: the scan of keyword k is entered
TaskScan(t, c, k) ==
    [t EXCEPT !.at = "fetch", !.kw = k, !.page = 1,
              !.current_position = ScanStart(c)]

\* lines 227-234: the scan returned position
TaskPosition(t, position) ==
    [t EXCEPT !.at = "kwsleep",
              !.search_results =
                  Append(@, SearchResult(t.keywords[t.kw],
                                         PositionOrNone(position)))]

\* lines 236-240
TaskReturn(t) ==
    [t EXCEPT !.at = "done",
              !.result = KeywordAnalysisResult(t.product_details.details,
                                               FoundKeywords(t.keywords),
                                               t.search_results)]

TaskRaise(t, e) == [t EXCEPT !.at = "done", !.result = ResultRaise(e)]

\* lines 186-208: a call, up to its return or its first await
TaskStart(c, url, kws) ==
    /\ tasks[c].at = "idle"
    /\ LET id == extract_article_id(url)
           t == [IdleTask EXCEPT !.product_url = url, !.keywords = kws,
                                 !.article_id = id]
       IN  tasks' = [tasks EXCEPT ![c] =
                IF NoArticle(id)
                THEN [t EXCEPT
                        !.at = "done",
                        !.result =
                            KeywordAnalysisResult(PlaceholderDetails(url),
                                                  PlaceholderKeywords(kws),
                                                  <<>>)]
                ELSE [t EXCEPT !.at = "detail"]]
    /\ UNCHANGED <<svcVars, anaVars, proxyVars, shardVars, llmVars, botVars,
                   retryVars>>

\* lines 208-225: the request of get_product_details answers
TaskDetail(c, http) ==
    /\ tasks[c].at = "detail"
    /\ LET t == Hear(c, http)
           r == MakeRequest(http)
           d == get_product_details(r.value, t.article_id.int, t.product_url)
           u == [t EXCEPT !.product_details =
                    IF d.none
                    THEN SomeDetails(FallbackDetails(t.article_id.int,
                                                     t.product_url))
                    ELSE d]
       IN  tasks' = [tasks EXCEPT ![c] =
                IF r.raised # "none" THEN TaskRaise(t, r.raised)
                ELSE IF d.raised # "none" THEN TaskRaise(t, d.raised)
                ELSE IF Len(t.keywords) = 0 THEN TaskReturn(u)
                ELSE TaskScan(u, c, 1)]
    /\ UNCHANGED <<svcVars, anaVars, proxyVars, shardVars, llmVars, botVars,
                   retryVars>>

\* lines 166-182 and 227-234: the request of one page answers
TaskPage(c, http) ==
    /\ tasks[c].at = "fetch"
    /\ LET t == Hear(c, http)
           r == MakeRequest(http)
           step == PageStep(r.value, t.current_position, t.article_id.int)
           u == [t EXCEPT !.current_position = step.pos]
       IN  tasks' = [tasks EXCEPT ![c] =
                IF r.raised # "none" THEN TaskRaise(t, r.raised)
                ELSE CASE step.outcome = "return" ->
                              TaskPosition(u, step.pos)
                       [] step.outcome = "break" -> TaskPosition(u, -1)
                       [] step.outcome = "sleep" ->
                              [u EXCEPT !.at = "pagesleep"]
                       [] OTHER -> TaskRaise(u, step.outcome)]
    /\ UNCHANGED <<svcVars, anaVars, proxyVars, shardVars, llmVars, botVars,
                   retryVars>>

\* lines 182-184 and 165: the sleep after a page ends
TaskSleepPage(c) ==
    /\ tasks[c].at = "pagesleep"
    /\ tasks' = [tasks EXCEPT ![c] =
            IF LastPage(@.page) THEN TaskPosition(@, -1)
            ELSE [@ EXCEPT !.at = "fetch", !.page = NextPage(@)]]
    /\ UNCHANGED <<svcVars, anaVars, proxyVars, shardVars, llmVars, botVars,
                   retryVars>>

\* lines 234-240 and 224: the sleep after a keyword ends
TaskSleepKeyword(c) ==
    /\ tasks[c].at = "kwsleep"
    /\ tasks' = [tasks EXCEPT ![c] =
            IF @.kw = Len(@.keywords) THEN TaskReturn(@)
            ELSE TaskScan(@, c, @.kw + 1)]
    /\ UNCHANGED <<svcVars, anaVars, proxyVars, shardVars, llmVars, botVars,
                   retryVars>>

taskIdle == tasks = [c \in TaskIds |-> IdleTask]

(***************************************************************************)
(* AbstractLLMService.extract_keywords (src/src/services/llm_service.py),  *)
(* wrapped by async_retry with the LLM settings of config.py.  The two     *)
(* providers differ in the URL and the key only.                           *)
(***************************************************************************)
SEARCH_KEYWORDS_COUNT == 5   \* config.py line 30: self.keywords_count

\* config.py lines 39-42 and llm_service.py lines 48-58, LLM_MAX_RETRIES
\* being whatever the environment sets
LlmRetryConfigs ==
    {[max_retries |-> n, initial_backoff |-> 2000, max_backoff |-> 60000,
      backoff_factor |-> 2, jitter |-> TRUE,
      retryable_exceptions |-> {"ClientError", "TimeoutError", "Exception"}] :
        n \in 0..MaxRetriesBound}

\* What the provider does to one POST: an exception of the transport, or
\* a status with a body.  The body is null or {} ("empty"), an object
\* without choices[0].message.content ("nochoices"), one whose content is
\* not JSON ("notjson"), one whose content is JSON but no list
\* ("notlist"), or one whose content is the list keywords ("list").
LlmOutcome(e, s, b, kws) ==
    [exc |-> e, status |-> s, body |-> b, keywords |-> kws]
NoLlmOutcome == LlmOutcome("none", 0, "empty", <<>>)
LlmOutcomes ==
    {LlmOutcome("ClientError", 0, "empty", <<>>),
     LlmOutcome("TimeoutError", 0, "empty", <<>>),
     LlmOutcome("none", 500, "empty", <<>>)}
        \cup {LlmOutcome("none", HTTP_OK, b, <<>>) :
                b \in {"empty", "nochoices", "notjson", "notlist", "list"}}
        \cup {LlmOutcome("none", HTTP_OK, "list", kws) :
                kws \in {<<"k1">>,
                         <<"k1", "k2", "k3", "k4", "k5">>,
                         <<"k1", "k2", "k3", "k4", "k5", "k6">>}}

\* What a step of extract_keywords gives: a list, or an exception
Keywords(kws) == [raised |-> "none", keywords |-> kws]
LlmRaise(e) == [raised |-> e, keywords |-> <<>>]

\* keywords[:n]
Take(kws, n) == SubSeq(kws, 1, Min(Len(kws), n))

\* Variant of parse_response: a response that does not parse gives the
\* list of one marker string
ParseOrSentinel(o) ==
    IF o.body = "list" /\ Len(o.keywords) > 0
    THEN Keywords(Take(o.keywords, SEARCH_KEYWORDS_COUNT))
    ELSE Keywords(<<MarkerProcessing>>)

\* lines 165-189: _parse_response; KeyError and JSONDecodeError are
\* raised again as Exception
parse_response(o) ==
    IF o.body = "list" /\ Len(o.keywords) > 0
    THEN Keywords(Take(o.keywords, SEARCH_KEYWORDS_COUNT))
    ELSE LlmRaise("Exception")

\* lines 59-86 and 99-127: one run of the body of extract_keywords
extract_keywords(o) ==
    IF o.exc # "none" THEN LlmRaise(o.exc)
    ELSE IF o.status # HTTP_OK THEN LlmRaise("Exception")
    ELSE IF o.body = "empty" THEN LlmRaise("Exception")
    ELSE parse_response(o)

llmIdle == llm = [requests |-> 0, last |-> NoLlmOutcome, returned |-> <<>>]

\* retry.py lines 34-38: the wrapped extract_keywords is called
LlmCall(c) ==
    /\ calls[c].pc \in {"idle", "done"}
    /\ calls' = [calls EXCEPT ![c] = Started(c)]
    /\ llm' = [requests |-> 0, last |-> NoLlmOutcome, returned |-> <<>>]
    /\ UNCHANGED <<rp, svcVars, anaVars, proxyVars, shardVars, taskVars,
                   botVars>>

\* retry.py lines 40-56: the body of extract_keywords runs once, with one
\* POST to the provider, and returns or raises
LlmAttempt(c, o, percent) ==
    /\ calls[c].pc = "calling"
    /\ LET got == extract_keywords(o)
       IN  /\ calls' = [calls EXCEPT ![c] =
                    IF got.raised = "none" THEN AfterReturn(@)
                    ELSE AfterRaise(@, got.raised, percent)]
           /\ llm' = [requests |-> llm.requests + 1, last |-> o,
                      returned |-> got.keywords]
    /\ UNCHANGED <<rp, svcVars, anaVars, proxyVars, shardVars, taskVars,
                   botVars>>

(***************************************************************************)
(* Specifications                                                          *)
(***************************************************************************)
extIdle ==
    anaIdle /\ proxyIdle /\ shardIdle /\ taskIdle /\ llmIdle /\ botIdle

Init == svcIdle /\ extIdle /\ retryIdle

Next ==
    \/ \E url \in Urls : CallGetProductData(url)
    \/ \E http \in HttpOutcomes : CardFetch(http)
    \/ \E target \in ProductIds : CallFindProductPosition(target)
    \/ \E http \in HttpOutcomes : FetchPage(http)
    \/ SleepPage

Spec == Init /\ [][Next]_vars

\* Every await of the service ends: session.get has timeout=30, and a
\* sleep lasts its fixed time.
SpecFair ==
    /\ Spec
    /\ WF_vars(\E http \in HttpOutcomes : CardFetch(http))
    /\ WF_vars(\E http \in HttpOutcomes : FetchPage(http))
    /\ WF_vars(SleepPage)

InitRetry ==
    /\ svcIdle
    /\ extIdle
    /\ rp \in RetryConfigs
    /\ calls = [c \in CallIds |-> IdleCall]

NextCalls(ids) ==
    \/ \E c \in ids : Invoke(c)
    \/ \E c \in ids : FuncReturns(c)
    \/ \E c \in ids, e \in Exceptions, percent \in JitterPercents :
          FuncRaises(c, e, percent)
    \/ \E c \in ids : SleepDone(c)

\* One call of a wrapped function, under every decorator
NextRetry == NextCalls({"a"})

SpecRetry == InitRetry /\ [][NextRetry]_vars

\* Two calls of one wrapped function, interleaved at their awaits
InitRetry2 ==
    /\ svcIdle
    /\ extIdle
    /\ rp \in ConcurrentConfigs
    /\ calls = [c \in CallIds |-> IdleCall]

NextRetry2 == NextCalls(CallIds)

SpecRetry2 == InitRetry2 /\ [][NextRetry2]_vars

\* One call after another of analyze_product_keywords, with the proxy
\* settings of the defaults and the clock standing still
NextAnalyze ==
    \/ \E url \in Urls, kws \in KeywordLists, uid \in {1} :
          CallAnalyze(url, kws, uid)
    \/ \E http \in DetailOutcomes : DetailFetch(http)
    \/ \E http \in AnalysisOutcomes : FetchPage(http)
    \/ SleepPage
    \/ ScanReturns
    \/ SleepKeyword

SpecAnalyze == Init /\ [][NextAnalyze]_vars

\* One message after another handled by process_wildberries_url
NextBot ==
    \/ \E url \in Urls, uid \in {1} : BotMessage(url, uid)
    \/ \E http \in CardOutcomes : CardFetch(http)
    \/ BotProductData
    \/ \E kws \in LlmKeywordLists : BotKeywords(kws)
    \/ BotKeywordsRaise
    \/ \E http \in DetailOutcomes : DetailFetch(http)
    \/ \E http \in AnalysisOutcomes : FetchPage(http)
    \/ SleepPage
    \/ ScanReturns
    \/ SleepKeyword
    \/ \E photo_ok \in BOOLEAN : BotAnalysis(photo_ok)

SpecBot == Init /\ [][NextBot]_vars

\* Calls of _resolve_basket_id
NextShard == \E nmid \in ShardIds : ResolveBasket(nmid)

SpecShard == Init /\ [][NextShard]_vars

\* The settings with which a proxy is given to every request
ProxyingConfigs ==
    {cfg \in ProxyConfigs :
        /\ cfg.use_proxy /\ cfg.enabled
        /\ cfg.username # "" /\ cfg.password # ""}

\* Calls of generate_session_id while time passes, under each digest
\* function and each window size
InitToken ==
    /\ svcIdle
    /\ anaIdle /\ shardIdle /\ taskIdle /\ llmIdle /\ botIdle
    /\ retryIdle
    /\ now = 0
    /\ md5 \in Md5Functions
    /\ proxy_cfg \in ProxyingConfigs
    /\ issued = <<>>

NextToken ==
    \/ \E t \in Clock : Tick(t)
    \/ \E uid \in UserIds : GenerateSessionId(uid)

SpecToken == InitToken /\ [][NextToken]_vars

\* The inputs of an analysis that runs while time passes
ProxiedUrls == {Url(TRUE, <<1>>, TRUE)}
ProxiedKeywordLists == {<<"k1", "k2">>}
ProxiedDetailOutcomes ==
    {HttpException("TimeoutError"),
     HttpResponse(HTTP_OK, TRUE, TRUE,
                  DetailBody({"data"}, FALSE, {"products"}, FALSE,
                             <<FullProduct>>))}
ProxiedSearchOutcomes ==
    {HttpResponse(HTTP_OK, TRUE, TRUE, PageBody(items)) :
        items \in {<<Stub(1)>>, <<Stub(2), Stub(2)>>}}
ProxiedClock == {119, 120}

\* One call after another of analyze_product_keywords through the proxy,
\* while time passes
NextProxy ==
    \/ \E t \in ProxiedClock : Tick(t)
    \/ \E url \in ProxiedUrls, kws \in ProxiedKeywordLists, uid \in {1} :
          CallAnalyze(url, kws, uid)
    \/ \E http \in ProxiedDetailOutcomes : DetailFetch(http)
    \/ \E http \in ProxiedSearchOutcomes : FetchPage(http)
    \/ SleepPage
    \/ ScanReturns
    \/ SleepKeyword

SpecProxy == InitToken /\ [][NextProxy]_vars

\* One call after another of analyze_product_keywords under every
\* setting of the proxy, for two users, while time passes
InitSettings ==
    /\ svcIdle
    /\ anaIdle /\ shardIdle /\ taskIdle /\ llmIdle /\ botIdle
    /\ retryIdle
    /\ now = 0
    /\ md5 = DefaultMd5
    /\ proxy_cfg \in ProxyConfigs
    /\ issued = <<>>

SettingsKeywordLists == {<<"k1">>}
SettingsClock == {120}

NextSettings ==
    \/ \E t \in SettingsClock : Tick(t)
    \/ \E url \in ProxiedUrls, kws \in SettingsKeywordLists,
          uid \in UserIds :
          CallAnalyze(url, kws, uid)
    \/ \E http \in ProxiedDetailOutcomes : DetailFetch(http)
    \/ \E http \in ProxiedSearchOutcomes : FetchPage(http)
    \/ SleepPage
    \/ ScanReturns
    \/ SleepKeyword

SpecSettings == InitSettings /\ [][NextSettings]_vars

\* Two calls of analyze_product_keywords, interleaved at their awaits
TaskUrls == {Url(TRUE, <<1>>, TRUE), Url(TRUE, <<0>>, TRUE)}
TaskKeywordLists == {<<>>, <<"k1">>}
TaskSearchOutcomes ==
    {HttpException("TimeoutError")}
        \cup {HttpResponse(HTTP_OK, TRUE, TRUE, PageBody(items)) :
                items \in {<<Stub(1)>>, <<Stub(2), Stub(2)>>}}

NextTasks ==
    \/ \E c \in TaskIds, url \in TaskUrls, kws \in TaskKeywordLists :
          TaskStart(c, url, kws)
    \/ \E c \in TaskIds, http \in ProxiedDetailOutcomes : TaskDetail(c, http)
    \/ \E c \in TaskIds, http \in TaskSearchOutcomes : TaskPage(c, http)
    \/ \E c \in TaskIds : TaskSleepPage(c)
    \/ \E c \in TaskIds : TaskSleepKeyword(c)

SpecTasks == Init /\ [][NextTasks]_vars

\* One call after another of extract_keywords
InitLlm ==
    /\ svcIdle
    /\ extIdle
    /\ rp \in LlmRetryConfigs
    /\ calls = [c \in CallIds |-> IdleCall]

NextLlm ==
    \/ LlmCall("a")
    \/ \E o \in LlmOutcomes, percent \in JitterPercents :
          LlmAttempt("a", o, percent)
    \/ SleepDone("a")

SpecLlm == InitLlm /\ [][NextLlm]_vars

(***************************************************************************)
(* Claims about find_product_position (Spec, SpecFair)                     *)
(***************************************************************************)
Scanning == method = "find_product_position"

\* A returned value that carries a list under data.products
HasProductList(v) ==
    /\ ~v.none
    /\ "data" \in v.json.keys
    /\ "products" \in v.json.data_keys
    /\ ~v.json.products_null

ItemsOf(v) == v.json.products

\* The place of the first stub of v with id t, 0 when there is none
FirstIndex(v, t) ==
    LET hits == {i \in 1..Len(ItemsOf(v)) : ItemsOf(v)[i] = Stub(t)}
    IN  IF hits = {} THEN 0 ELSE CHOOSE i \in hits : \A k \in hits : i <= k

\* Every stub of v before place j carries an id
IdsBefore(v, j) ==
    \A i \in 1..Len(ItemsOf(v)) : i < j => "id" \in ItemsOf(v)[i].keys

\* A valid, non-empty page that does not hold t
FullPageWithout(v, t) ==
    /\ HasProductList(v)
    /\ Len(ItemsOf(v)) > 0
    /\ IdsBefore(v, Len(ItemsOf(v)) + 1)
    /\ FirstIndex(v, t) = 0

\* The sizes of pages 1..p-1 of history h, added up
RECURSIVE SizesBefore(_, _)
SizesBefore(h, p) ==
    IF p <= 1 THEN 0
    ELSE SizesBefore(h, p - 1) + Len(ItemsOf(h[p - 1]))

\* C1: the target first appearing as the j-th item of page p, after pages
\* 1..p-1 that were valid and non-empty, makes find_product_position
\* return (sum of the sizes of pages 1..p-1) + j, and at once.
C1_RankAcrossPages ==
    Scanning =>
        \A p \in 1..Len(pages) :
            LET j == FirstIndex(pages[p], product_id)
            IN  (/\ HasProductList(pages[p])
                 /\ j > 0
                 /\ IdsBefore(pages[p], j)
                 /\ \A q \in 1..(p - 1) : FullPageWithout(pages[q], product_id))
                => /\ p = Len(pages)
                   /\ p <= MAX_SEARCH_PAGES
                   /\ pc = "done"
                   /\ ret = ReturnInt(SizesBefore(pages, p) + j)

\* The 2nd item of page 2 after a full first page: rank MaxPageSize + 2
C1_Witness ==
    /\ Scanning
    /\ Len(pages) = 2
    /\ Len(ItemsOf(pages[1])) = MaxPageSize
    /\ FullPageWithout(pages[1], product_id)
    /\ HasProductList(pages[2])
    /\ FirstIndex(pages[2], product_id) = 2
    /\ ret = ReturnInt(MaxPageSize + 2)

\* A fetch that yielded none: a failed request or a missing envelope
YieldedNone(v) ==
    \/ v.none
    \/ "data" \notin v.json.keys
    \/ "products" \notin v.json.data_keys

\* A page with zero items
ZeroItems(v) == HasProductList(v) /\ Len(ItemsOf(v)) = 0

\* C2: a page fetch that yields none, or a page with zero items, is the
\* last fetch of the scan, and the scan has returned not-found (-1).
C2_StopsAtFirstMiss ==
    Scanning =>
        \A i \in 1..Len(pages) :
            (YieldedNone(pages[i]) \/ ZeroItems(pages[i]))
            => /\ i = Len(pages)
               /\ fetched = [k \in 1..i |-> k]
               /\ pc = "done"
               /\ ret = ReturnInt(-1)

\* An empty first page: not-found after exactly one fetch
C2_Witness ==
    /\ Scanning
    /\ Len(pages) = 1
    /\ ZeroItems(pages[1])
    /\ fetched = <<1>>
    /\ ret = ReturnInt(-1)

\* The pages requested so far are 1, 2, 3, ... and at most max_search_pages
C3_PagesInOrder ==
    /\ Len(fetched) <= MAX_SEARCH_PAGES
    /\ \A i \in 1..Len(fetched) : fetched[i] = i
    /\ (Scanning /\ pc = "fetch") => page = Len(fetched) + 1
    /\ (Scanning /\ pc = "sleep") => page = Len(fetched)

\* An iteration ends the call or goes to sleep on the same page, and the
\* sleep leads to the next page number or ends the call
C3_IterationAdvances ==
    /\ (Scanning /\ pc = "fetch") =>
          /\ pc' \in {"fetch", "sleep", "done"}
          /\ pc' = "sleep" => (page' = page /\ Len(fetched') = Len(fetched) + 1)
          /\ pc' = "fetch" => UNCHANGED <<page, fetched>>
    /\ (Scanning /\ pc = "sleep" /\ pc' = "fetch") => page' = page + 1

\* C3: find_product_position terminates: it fetches at most
\* max_search_pages pages, numbered 1, 2, 3, ... without a gap or a repeat,
\* every iteration ends the call or advances the page number, and a running
\* scan reaches its end.
C3_Terminates ==
    /\ []C3_PagesInOrder
    /\ [][C3_IterationAdvances]_vars
    /\ (Scanning /\ pc \in {"fetch", "sleep"}) ~> (pc = "done")

\* A scan that fetched every page and ended
C3_Witness ==
    /\ Scanning
    /\ pc = "done"
    /\ fetched = [k \in 1..MAX_SEARCH_PAGES |-> k]

AllFullWithoutTarget ==
    \A q \in 1..Len(pages) : FullPageWithout(pages[q], product_id)

\* C4: while every page fetched is non-empty and without the target, the
\* scan gives no rank; it ends only after max_search_pages fetches, and
\* then with not-found (-1).
C4_ExhaustedNotFound ==
    (Scanning /\ AllFullWithoutTarget) =>
        /\ ret \in {Pending, ReturnInt(-1)}
        /\ pc = "done" =>
              (Len(fetched) = MAX_SEARCH_PAGES /\ ret = ReturnInt(-1))
        /\ Len(pages) = MAX_SEARCH_PAGES => pc \in {"sleep", "done"}

C4_Witness ==
    /\ Scanning
    /\ AllFullWithoutTarget
    /\ Len(pages) = MAX_SEARCH_PAGES
    /\ pc = "done"
    /\ ret = ReturnInt(-1)

(***************************************************************************)
(* Claims about async_retry (SpecRetry, SpecRetry2)                        *)
(***************************************************************************)
\* The last failure of the call is one the decorator retries
LastFailureRetryable(me) ==
    IsInstance(me.last_failure, rp.retryable_exceptions)

\* C5: with max_retries = N the wrapped function is invoked at most N + 1
\* times; a success after k <= N failures is returned after exactly k
\* delays; a retryable failure is propagated only as the (N+1)-th, which is
\* propagated after exactly N delays.
C5_AttemptsAndDelays ==
    \A c \in CallIds :
        LET me == calls[c]
            N == rp.max_retries
        IN  /\ me.attempts <= N + 1
            /\ me.outcome = "returned" =>
                  /\ me.failures <= N
                  /\ me.attempts = me.failures + 1
                  /\ Len(me.delays) = me.failures
            /\ (me.outcome = "raised" /\ LastFailureRetryable(me)) =>
                  me.failures = N + 1
            /\ me.failures = N + 1 =>
                  /\ me.pc = "done"
                  /\ me.outcome = "raised"
                  /\ me.exc = me.last_failure
                  /\ Len(me.delays) = N

\* N = 3: four failures give 3 delays and a raise
C5_Witness ==
    /\ rp.max_retries = 3
    /\ calls["a"].failures = 4
    /\ LastFailureRetryable(calls["a"])
    /\ calls["a"].outcome = "raised"
    /\ Len(calls["a"].delays) = 3

\* C6: a failure outside the retryable set ends the call at once: it is
\* the exception raised, no delay follows it, it is not counted as a retry
\* and the function is not invoked again.
C6_NonRetryablePropagates ==
    \A c \in CallIds :
        LET me == calls[c]
        IN  (me.failures >= 1 /\ ~LastFailureRetryable(me)) =>
                /\ me.pc = "done"
                /\ me.outcome = "raised"
                /\ me.exc = me.last_failure
                /\ me.attempts = me.failures
                /\ me.retries = me.failures - 1
                /\ Len(me.delays) = me.failures - 1

\* A ValueError after one retried ClientError, with retries left
C6_Witness ==
    /\ rp.retryable_exceptions = {"ClientError", "TimeoutError"}
    /\ rp.max_retries >= 2
    /\ calls["a"].failures = 2
    /\ calls["a"].last_failure = "ValueError"
    /\ calls["a"].outcome = "raised"
    /\ Len(calls["a"].delays) = 1

RECURSIVE Pow(_, _)
Pow(b, k) == IF k = 0 THEN 1 ELSE b * Pow(b, k - 1)

OwnRetries(me) ==
    IF me.failures >= 1 /\ ~LastFailureRetryable(me)
    THEN me.failures - 1
    ELSE me.failures

\* C8: a call of the wrapped function starts with retries = 0 and backoff =
\* initial_backoff whatever the other calls have done, counts only its own
\* failures, and gives up on a retryable failure only at its own
\* (max_retries + 1)-th.
C8_PerInvocationState ==
    \A c \in CallIds :
        LET me == calls[c]
        IN  /\ (me.pc = "calling" /\ me.attempts = 0) =>
                  (me.retries = 0 /\ me.backoff = rp.initial_backoff)
            /\ me.pc # "idle" => me.retries = OwnRetries(me)
            /\ (me.outcome = "raised" /\ LastFailureRetryable(me)) =>
                  me.failures = rp.max_retries + 1

\* Call a starts while call b has used all its retries and sleeps
C8_Witness ==
    /\ rp.max_retries >= 2
    /\ calls["a"].pc = "calling"
    /\ calls["a"].attempts = 0
    /\ calls["a"].retries = 0
    /\ calls["b"].pc = "sleeping"
    /\ calls["b"].retries = rp.max_retries

(***************************************************************************)
(* Claims about _make_request (Spec)                                       *)
(***************************************************************************)
\* The requests the running method has made
RequestsMade ==
    IF method = "find_product_position" THEN Len(fetched)
    ELSE IF method = "get_product_data" /\ pc = "done" /\ ~NoArticle(article_id)
         THEN 1
    ELSE 0

C10_NeverRaises ==
    RequestsMade > 0 =>
        /\ last_result.raised = "none"
        /\ last_http.exc # "none" => last_result.value = PyNone
        /\ (last_http.exc = "none" /\ last_http.status # HTTP_OK) =>
              last_result.value = PyNone
        /\ (last_http.exc = "none" /\ last_http.status = HTTP_OK
                /\ ~last_http.parses) => last_result.value = PyNone
        /\ ret.kind = "raise" => ret.exc \in {"KeyError", "TypeError"}

\* A 200 with a JSON content type whose body does not parse
C10_Witness ==
    /\ method = "get_product_data"
    /\ pc = "done"
    /\ last_http.exc = "none"
    /\ last_http.status = HTTP_OK
    /\ last_http.ctype_json
    /\ ~last_http.parses
    /\ ret = ReturnVal(PyNone)

(***************************************************************************)
(* Claims about analyze_product_keywords (SpecAnalyze)                     *)
(***************************************************************************)
Analyzing == method = "analyze_product_keywords"

\* The pattern of line 23 finds an id in the URL, and the id is not 0
Parseable(url) ==
    /\ url.prefix
    /\ url.suffix
    /\ \E i \in 1..Len(url.digits) : url.digits[i] # 0

\* The places of the history events where a search page was requested
SearchPlaces ==
    {i \in 1..Len(events) :
        events[i].kind = "request" /\ events[i].op = "search"}

\* C11: on a URL from which no product id can be parsed,
\* analyze_product_keywords returns at once, without a request and without
\* a delay, a result whose product has id 0 and whose keywords and results
\* are empty, whatever keywords it was given.
C11_UnparseablePlaceholder ==
    (Analyzing /\ ~Parseable(product_url)) =>
        /\ apc = "done"
        /\ result.kind = "value"
        /\ result.product.id = 0
        /\ result.found_keywords = <<>>
        /\ result.search_results = <<>>
        /\ events = <<>>
        /\ http_attempts = 0

\* Two keywords and a URL that is not a product's
C11_Witness ==
    /\ Analyzing
    /\ ~product_url.prefix
    /\ keywords = <<"k1", "k2">>
    /\ result.kind = "value"
    /\ result.product.id = 0
    /\ result.found_keywords = <<>>

\* C12: for a parseable URL the result carries the keyword list it was
\* given, repeats and order kept, and one SearchResult for each keyword, in
\* the same order; the keywords are scanned in the order of the list.
C12_KeywordsEchoed ==
    (Analyzing /\ Parseable(product_url)) =>
        /\ result.kind = "value" =>
              /\ result.found_keywords = keywords
              /\ result.search_results = search_results
              /\ Len(search_results) = Len(keywords)
        /\ Len(search_results) <= Len(keywords)
        /\ \A i \in 1..Len(search_results) :
              search_results[i].keyword = keywords[i]
        /\ apc = "scan" => kw = Len(search_results) + 1
        /\ \A i \in SearchPlaces, j \in SearchPlaces :
              i <= j => events[i].kw <= events[j].kw

\* A keyword given twice is scanned twice and reported twice
C12_Witness ==
    /\ Analyzing
    /\ keywords = <<"k1", "k1">>
    /\ result.kind = "value"
    /\ result.found_keywords = <<"k1", "k1">>
    /\ Len(result.search_results) = 2
    /\ \E i \in SearchPlaces : events[i].kw = 2

\* C13: the position of a SearchResult is the rank the scan returned when
\* that rank is positive, and none when the scan returned not-found; no
\* position is 0 or negative.
C13_PositionOrNone ==
    Analyzing =>
        /\ \A i \in 1..Len(search_results) :
              LET p == search_results[i].product_position
              IN  p = NoInt \/ (~p.none /\ p.int > 0)
        /\ apc = "kwsleep" =>
              LET p == search_results[Len(search_results)].product_position
              IN  /\ ret.kind = "int"
                  /\ ret.int > 0 => p = SomeInt(ret.int)
                  /\ ret.int = -1 => p = NoInt

\* Rank 7 for the first keyword, five full pages without the product for
\* the second: positions [7, none]
C13_Witness ==
    /\ Analyzing
    /\ apc = "kwsleep"
    /\ search_results =
          <<SearchResult("k1", SomeInt(7)), SearchResult("k2", NoInt)>>
    /\ Len(pages) = MAX_SEARCH_PAGES
    /\ AllFullWithoutTarget

\* The response to the detail request has no non-empty data.products
DetailLacking ==
    \/ last_result.value.none
    \/ "data" \notin last_result.value.json.keys
    \/ last_result.value.json.data_null
    \/ "products" \notin last_result.value.json.data_keys
    \/ last_result.value.json.products_null
    \/ Len(last_result.value.json.products) = 0

\* The detail request is the last thing the analysis did
DetailJustFetched ==
    /\ Analyzing
    /\ Len(events) = 1
    /\ events[1].op = "detail"

\* C14: when the detail request fails or its response has no non-empty
\* data.products, analyze_product_keywords does not fail: it goes on with
\* a ProductDetails that has the parsed id and an empty brand and zero
\* price, rating and feedbacks, and scans the keywords.
C14_DetailFailureTolerated ==
    (DetailJustFetched /\ DetailLacking) =>
        /\ result.kind # "raise"
        /\ ~product_details.none
        /\ product_details.details.id = article_id.int
        /\ product_details.details.brand = ""
        /\ product_details.details.price = Hundredths(0)
        /\ product_details.details.rating = 0
        /\ product_details.details.feedbacks = 0
        /\ IF Len(keywords) = 0 THEN apc = "done" ELSE apc = "scan"

\* The awaits of the analysis that are a request in flight
PendingRequests ==
    (IF apc = "detail" THEN {"detail"} ELSE {})
        \cup (IF pc = "fetch" THEN {"search"} ELSE {})

\* The place of the next search request after place i, 0 when none
NextSearchPlace(i) ==
    LET later == {j \in SearchPlaces : j > i}
    IN  IF later = {} THEN 0
        ELSE CHOOSE j \in later : \A k \in later : j <= k

\* C15: an analysis has at most one request in flight: the detail request
\* is answered before the first search request is sent, page p + 1 of a
\* keyword is requested only after page p was processed, and the scan of
\* keyword i + 1 starts only after the scan of keyword i has returned.
C15_OneRequestAtATime ==
    (Analyzing /\ Parseable(product_url)) =>
        /\ Cardinality(PendingRequests) <= 1
        /\ apc = "detail" => events = <<>>
        /\ events # <<>> =>
              (events[1].kind = "request" /\ events[1].op = "detail")
        /\ \A i \in 2..Len(events) : events[i].op # "detail"
        /\ \A i \in SearchPlaces :
              LET j == NextSearchPlace(i)
              IN  /\ (\A k \in SearchPlaces : i <= k) =>
                        (events[i].kw = 1 /\ events[i].page = 1)
                  /\ j # 0 =>
                        \/ /\ events[j].kw = events[i].kw
                           /\ events[j].page = events[i].page + 1
                        \/ /\ events[j].kw = events[i].kw + 1
                           /\ events[j].page = 1
        /\ (apc = "scan" /\ pc = "fetch") =>
              /\ Len(pages) = page - 1
              /\ Len(fetched) = page - 1
        /\ (apc = "scan" /\ pc \in {"fetch", "sleep"}) =>
              Len(search_results) = kw - 1
        /\ apc \in {"idle", "detail", "kwsleep", "done"} =>
              pc \notin {"fetch", "sleep"}

\* The details, then two pages for the first keyword, then the second
C15_Witness ==
    /\ Analyzing
    /\ apc = "done"
    /\ result.kind = "value"
    /\ Len(keywords) = 2
    /\ \E i \in SearchPlaces : events[i].kw = 1 /\ events[i].page = 2
    /\ \E i \in SearchPlaces : events[i].kw = 2 /\ events[i].page = 1

\* The sleeps between places i and j of the history events
SleepsBetween(i, j) ==
    {k \in (i + 1)..(j - 1) : events[k].kind = "sleep"}

IsSleep(e, op, ms) == e.kind = "sleep" /\ e.op = op /\ e.ms = ms

\* C16: between two consecutive page requests of one keyword exactly one
\* inter-page delay is taken; between the last page request of a keyword
\* and the first of the next an inter-keyword delay is taken; no two
\* search requests follow each other without a delay between them.
C16_Pacing ==
    Analyzing =>
        \A i \in SearchPlaces :
            LET j == NextSearchPlace(i)
            IN  j # 0 =>
                  /\ SleepsBetween(i, j) # {}
                  /\ SleepsBetween(i, j) = (i + 1)..(j - 1)
                  /\ events[j].kw = events[i].kw =>
                        /\ j = i + 2
                        /\ IsSleep(events[i + 1], "page", PAGE_SLEEP_MS)
                  /\ events[j].kw # events[i].kw =>
                        /\ IsSleep(events[j - 1], "keyword", KEYWORD_SLEEP_MS)
                        /\ \A k \in (i + 1)..(j - 2) :
                              IsSleep(events[k], "page", PAGE_SLEEP_MS)
                        /\ j <= i + 3

\* Two pages of the first keyword, then the first page of the second
C16_Witness ==
    /\ Analyzing
    /\ \E i \in SearchPlaces :
          /\ Len(events) >= i + 4
          /\ events[i].kw = 1 /\ events[i].page = 1
          /\ IsSleep(events[i + 1], "page", PAGE_SLEEP_MS)
          /\ events[i + 2].kw = 1 /\ events[i + 2].page = 2
          /\ IsSleep(events[i + 3], "keyword", KEYWORD_SLEEP_MS)
          /\ events[i + 4].kw = 2 /\ events[i + 4].page = 1


(***************************************************************************)
(* Claims about process_wildberries_url (SpecBot)                          *)
(***************************************************************************)
Markers == {MarkerProcessing, MarkerFetching}

\* The keyword list that extract_keywords returned carries a marker
SentinelReturned ==
    \E i \in 1..Len(llm_keywords) : llm_keywords[i] \in Markers

\* C17: when extract_keywords returns a list that carries one of the two
\* marker strings, the handler calls no analysis: no scan runs, no detail
\* or search request is sent, and the answer is the analysis-failed text;
\* no search request is ever sent for a marker string.
C17_SentinelShortCircuit ==
    /\ SentinelReturned =>
          /\ bpc = "done"
          /\ replies[Len(replies)] = BotCall("answer", "analysis failed")
          /\ method # "analyze_product_keywords"
          /\ apc = "idle"
          /\ pc \notin {"fetch", "sleep"}
          /\ \A i \in 1..Len(events) : events[i].op = "card"
    /\ \A i \in SearchPlaces : keywords[events[i].kw] \notin Markers

\* A keyword and a marker: the analysis-failed answer, after the card
\* request alone
C17_Witness ==
    /\ llm_keywords = <<"k1", MarkerFetching>>
    /\ bpc = "done"
    /\ replies[Len(replies)] = BotCall("answer", "analysis failed")
    /\ Len(events) = 1
    /\ events[1].op = "card"


(***************************************************************************)
(* Claims about _resolve_basket_id (SpecShard)                             *)
(***************************************************************************)
\* The shard codes in ascending order
BasketCodes ==
    <<"01", "02", "03", "04", "05", "06", "07", "08", "09", "10", "11", "12",
      "13", "14", "15", "16", "17", "18", "19", "20", "21", "22", "23", "24",
      "25", "26">>

\* The number a shard code stands for, 0 for a string that is no code
CodeNumber(code) ==
    IF \E i \in 1..Len(BasketCodes) : BasketCodes[i] = code
    THEN CHOOSE i \in 1..Len(BasketCodes) : BasketCodes[i] = code
    ELSE 0

\* The bounds of the table that are below s
BoundsBelow(s) ==
    {i \in 1..Len(BasketChain) : BasketChain[i].bound < s}

\* C18: _resolve_basket_id gives every id one code: that of the first
\* bound, in ascending order, that is >= id div 100000, and 26 above the
\* last bound, 4565; 143 gives 01 and 144 gives 02; the code does not
\* decrease as the id grows.
C18_FirstBoundAtOrAbove ==
    /\ \A i \in 1..Len(shard) :
          LET s == shard[i].nmid \div 100000
              code == CodeNumber(shard[i].basket)
          IN  /\ code \in 1..26
              /\ code = Cardinality(BoundsBelow(s)) + 1
              /\ code <= 25 =>
                    /\ BasketChain[code].bound >= s
                    /\ BasketChain[code].basket = shard[i].basket
              /\ s > 4565 <=> code = 26
              /\ s = 143 => shard[i].basket = "01"
              /\ s = 144 => shard[i].basket = "02"
    /\ \A i \in 1..Len(shard), j \in 1..Len(shard) :
          /\ shard[i].nmid = shard[j].nmid => shard[i].basket = shard[j].basket
          /\ shard[i].nmid <= shard[j].nmid =>
                CodeNumber(shard[i].basket) <= CodeNumber(shard[j].basket)
    /\ \A i \in 1..(Len(BasketChain) - 1) :
          BasketChain[i].bound < BasketChain[i + 1].bound

\* The last id of shard 01 and the first of shard 02
C18_Witness ==
    /\ Len(shard) = 2
    /\ shard[1] = [nmid |-> 14400000, basket |-> "02"]
    /\ shard[2] = [nmid |-> 14399999, basket |-> "01"]

(***************************************************************************)
(* Claims about the session id (SpecToken, SpecProxy)                      *)
(***************************************************************************)
\* floor(seconds / (60 * windowMinutes))
Bucket(seconds) == seconds \div (60 * proxy_cfg.timeout_minutes)

\* C19: two session ids generated for one user in one window, that is at
\* times with the same floor(now / (60 * windowMinutes)), are the same,
\* and a session id is a function of the user id and the window's number.
C19_TokenDeterminism ==
    /\ \A i \in 1..Len(issued), j \in 1..Len(issued) :
          (/\ issued[i].user_id = issued[j].user_id
           /\ Bucket(issued[i].at) = Bucket(issued[j].at))
          => issued[i].sessid = issued[j].sessid
    /\ \A i \in 1..Len(issued) :
          issued[i].sessid =
             Md5Hex11([user_id |-> issued[i].user_id,
                       normalized_time |-> Bucket(issued[i].at)])

\* One user at the two ends of the first minute
C19_Witness ==
    /\ proxy_cfg.timeout_minutes = 1
    /\ Len(issued) = 2
    /\ issued[1].user_id = issued[2].user_id
    /\ issued[1].at = 59
    /\ issued[2].at = 0
    /\ issued[1].sessid = issued[2].sessid

\* The places of the history events where a request was sent
RequestPlaces == {i \in 1..Len(events) : events[i].kind = "request"}

Proxying ==
    /\ proxy_cfg.use_proxy
    /\ proxy_cfg.enabled
    /\ proxy_cfg.username # ""
    /\ proxy_cfg.password # ""

\* C20 as stated: with proxying enabled, all the requests of one analysis
\* carry the same session id.
C20_OneTokenPerAnalysis ==
    (Analyzing /\ Proxying) =>
        \A i \in RequestPlaces, j \in RequestPlaces :
            events[i].proxy = events[j].proxy

\* C20, amended: with proxying enabled, every request of an analysis
\* carries a session id, and the requests of the analysis that are sent
\* in one window carry the same one.
C20_OneTokenPerWindow ==
    (Analyzing /\ Proxying) =>
        /\ \A i \in RequestPlaces : ~events[i].proxy.none
        /\ \A i \in RequestPlaces, j \in RequestPlaces :
              Bucket(events[i].at) = Bucket(events[j].at)
              => events[i].proxy = events[j].proxy

\* The detail request and two search requests in the first two-minute
\* window, at different times, with one session id; a request of the next
\* window with another
C20_Witness ==
    /\ Analyzing
    /\ Proxying
    /\ proxy_cfg.timeout_minutes = 2
    /\ Len(events) >= 6
    /\ events[1].op = "detail" /\ events[1].at = 0
    /\ events[2].op = "search" /\ events[2].at = 0
    /\ events[4].op = "search" /\ events[4].at = 119
    /\ events[1].proxy = events[4].proxy
    /\ events[6].op = "search" /\ events[6].at = 120
    /\ events[6].proxy # events[1].proxy

(***************************************************************************)
(* Claims about the proxy settings (SpecSettings)                          *)
(***************************************************************************)
\* The proxy a request sent at a time for a user is to carry under the
\* settings: the login made of PIA_USERNAME and the session id of the
\* user and the window, with PIA_PASSWORD
ExpectedProxy(uid, at) ==
    [none |-> FALSE,
     sessid |-> Md5Hex11([user_id |-> uid, normalized_time |-> Bucket(at)]),
     username |-> proxy_cfg.username,
     password |-> proxy_cfg.password]

\* C21: when WB_USE_PROXY or PROXY_ENABLED is off, or PIA_USERNAME or
\* PIA_PASSWORD is not set, every request of an analysis is sent with no
\* proxy and no credentials, and the analysis does not raise; otherwise
\* the login of the proxy of every request holds the username and the
\* session id derived for the user at the time of the request, and its
\* password is PIA_PASSWORD.
C21_ProxyBySettings ==
    Analyzing =>
        /\ ~Proxying =>
              /\ \A i \in RequestPlaces : events[i].proxy = NoProxy
              /\ result.kind # "raise"
        /\ Proxying =>
              \A i \in RequestPlaces :
                  events[i].proxy = ExpectedProxy(user_id, events[i].at)

\* An analysis ended with a result after its requests went out without a
\* proxy, PROXY_ENABLED and WB_USE_PROXY being on and the username set,
\* for want of a password
C21_Witness ==
    /\ apc = "done"
    /\ result.kind = "value"
    /\ proxy_cfg.use_proxy /\ proxy_cfg.enabled
    /\ proxy_cfg.username # "" /\ proxy_cfg.password = ""
    /\ Len(events) >= 2
    /\ \A i \in RequestPlaces : events[i].proxy = NoProxy

(***************************************************************************)
(* Claims about malformed search responses (Spec)                          *)
(***************************************************************************)
\* C22: whatever the shape of the JSON of a search response (no data key,
\* no products key, products null, a product without an id),
\* find_product_position does not raise: it returns -1 or a rank.
C22_MalformedAbsorbed ==
    (method = "find_product_position" /\ pc = "done") =>
        /\ ret.kind = "int"
        /\ ret.int = -1 \/ ret.int >= 1

(***************************************************************************)
(* Claims about concurrent analyses (SpecTasks)                            *)
(***************************************************************************)
\* What find_product_position returns for target when it runs alone and
\* upstream answers its requests with heard[i], heard[i + 1], ...; next
\* is the place of the first answer it has not used
RECURSIVE ScanAlone(_, _, _, _, _)
ScanAlone(heard, i, p, pos, target) ==
    IF i > Len(heard)
    THEN [kind |-> "pending", int |-> 0, exc |-> "none", next |-> i]
    ELSE LET step == PageStep(MakeRequest(heard[i]).value, pos, target)
         IN  IF step.outcome = "return"
             THEN [kind |-> "int", int |-> step.pos, exc |-> "none",
                   next |-> i + 1]
             ELSE IF step.outcome = "break" \/
                     (step.outcome = "sleep" /\ p = MAX_SEARCH_PAGES)
             THEN [kind |-> "int", int |-> -1, exc |-> "none",
                   next |-> i + 1]
             ELSE IF step.outcome = "sleep"
             THEN ScanAlone(heard, i + 1, p + 1, step.pos, target)
             ELSE [kind |-> "raise", int |-> 0, exc |-> step.outcome,
                   next |-> i + 1]

\* The search results of the keywords from the k-th on, after done
RECURSIVE ResultsAlone(_, _, _, _, _, _)
ResultsAlone(heard, i, kws, k, target, done) ==
    IF k > Len(kws) THEN [kind |-> "value", results |-> done, exc |-> "none"]
    ELSE LET scan == ScanAlone(heard, i, 1, 0, target)
         IN  IF scan.kind = "int"
             THEN ResultsAlone(heard, scan.next, kws, k + 1, target,
                               Append(done,
                                      SearchResult(kws[k],
                                          IF scan.int > 0
                                          THEN SomeInt(scan.int)
                                          ELSE NoInt)))
             ELSE [kind |-> scan.kind, results |-> done, exc |-> scan.exc]

\* What analyze_product_keywords(url, kws) returns when it runs alone and
\* upstream answers its requests, in order, with heard
AnalysisAlone(url, kws, heard) ==
    LET id == extract_article_id(url)
    IN  IF NoArticle(id)
        THEN KeywordAnalysisResult(PlaceholderDetails(url), <<>>, <<>>)
        ELSE IF Len(heard) = 0 THEN NoResult
        ELSE LET d == get_product_details(MakeRequest(heard[1]).value,
                                          id.int, url)
                 details == IF d.none THEN FallbackDetails(id.int, url)
                            ELSE d.details
                 rs == ResultsAlone(heard, 2, kws, 1, id.int, <<>>)
             IN  IF d.raised # "none" THEN ResultRaise(d.raised)
                 ELSE IF rs.kind = "value"
                 THEN KeywordAnalysisResult(details, kws, rs.results)
                 ELSE IF rs.kind = "raise" THEN ResultRaise(rs.exc)
                 ELSE NoResult

\* C23: whatever the interleaving of two calls of
\* analyze_product_keywords on the one service instance, what a call
\* returns is what it returns when it runs alone and upstream gives it
\* the same answers.
C23_ConcurrentAsAlone ==
    \A c \in TaskIds :
        tasks[c].at = "done" =>
            tasks[c].result = AnalysisAlone(tasks[c].product_url,
                                            tasks[c].keywords,
                                            tasks[c].heard)

\* Both calls got answers while the other was running; a found the
\* product at rank 3, on its second page, and b at rank 1
C23_Witness ==
    /\ tasks["a"].at = "done" /\ tasks["a"].overlapped
    /\ tasks["b"].at = "done" /\ tasks["b"].overlapped
    /\ tasks["a"].result.kind = "value"
    /\ tasks["a"].result.search_results = <<SearchResult("k1", SomeInt(3))>>
    /\ tasks["b"].result.kind = "value"
    /\ tasks["b"].result.search_results = <<SearchResult("k1", SomeInt(1))>>

(***************************************************************************)
(* Claims about the delays of async_retry (SpecRetry)                      *)
(***************************************************************************)
\* C24: without jitter, the first delay of a call is initial_backoff.
C24_FirstDelayInitial ==
    ~rp.jitter =>
        \A c \in CallIds :
            Len(calls[c].delays) >= 1 =>
                calls[c].delays[1] = rp.initial_backoff

\* C25: no delay of a call is longer than max_backoff, with or without
\* jitter.
C25_DelayAtMostMax ==
    \A c \in CallIds :
        \A k \in 1..Len(calls[c].delays) :
            calls[c].delays[k] <= rp.max_backoff

\* The k-th delay without jitter
Unjittered(k) ==
    Min(rp.initial_backoff * Pow(rp.backoff_factor, k), rp.max_backoff)

\* C26: with jitter, the k-th delay of a call is between 80% and 120% of
\* min(initial_backoff * backoff_factor^k, max_backoff).
C26_JitterAroundSchedule ==
    rp.jitter =>
        \A c \in CallIds :
            \A k \in 1..Len(calls[c].delays) :
                /\ 80 * Unjittered(k) <= 100 * calls[c].delays[k]
                /\ 100 * calls[c].delays[k] <= 120 * Unjittered(k)

(***************************************************************************)
(* Claims about get_product_details (SpecAnalyze)                          *)
(***************************************************************************)
\* The first product of the response to the detail request
DetailProduct == last_result.value.json.products[1]

\* The product has sizes, the first of them has a price, and the price
\* has an amount
HasAmount(product) ==
    /\ "sizes" \in product.keys
    /\ Len(product.sizes) > 0
    /\ "price" \in product.sizes[1].keys
    /\ "product" \in product.sizes[1].price_keys

LlmFailure(o) ==
    \/ o.exc # "none"
    \/ o.status # HTTP_OK
    \/ o.body # "list"
    \/ Len(o.keywords) = 0

\* C28: a call of extract_keywords sends at most LLM_MAX_RETRIES + 1
\* requests; after a failure of any kind it tries again while retries
\* are left, and raises the failure of the last allowed request; it
\* returns only a list that a request was answered with, which is not
\* empty and has at most keywords_count entries.
C28_LlmRetriedThenRaised ==
    LET me == calls["a"]
    IN  /\ llm.requests <= rp.max_retries + 1
        /\ llm.requests = me.attempts
        /\ (me.pc # "idle" /\ llm.requests >= 1 /\ LlmFailure(llm.last)) =>
              IF llm.requests <= rp.max_retries
              THEN me.pc \in {"sleeping", "calling"}
              ELSE me.pc = "done" /\ me.outcome = "raised"
        /\ me.outcome = "raised" =>
              /\ llm.requests = rp.max_retries + 1
              /\ me.failures = llm.requests
        /\ me.outcome = "returned" =>
              /\ ~LlmFailure(llm.last)
              /\ Len(llm.returned) >= 1
              /\ Len(llm.returned) <= SEARCH_KEYWORDS_COUNT
              /\ llm.returned =
                    SubSeq(llm.last.keywords, 1, Len(llm.returned))

\* LLM_MAX_RETRIES = 3: the fourth request was answered with an empty
\* list, after three delays, and the call has raised
C28_Witness ==
    /\ rp.max_retries = 3
    /\ llm.requests = 4
    /\ llm.last = LlmOutcome("none", HTTP_OK, "list", <<>>)
    /\ Len(calls["a"].delays) = 3
    /\ calls["a"].outcome = "raised"

(***************************************************************************)
(* Claims about the stages of process_wildberries_url (SpecBot)            *)
(***************************************************************************)
\* The place of a call of the bot API in the history replies, 0 if it
\* was not made
PlaceOf(call, text) ==
    IF \E i \in 1..Len(replies) : replies[i] = BotCall(call, text)
    THEN CHOOSE i \in 1..Len(replies) : replies[i] = BotCall(call, text)
    ELSE 0

\* extract_keywords was called: line 88, which follows the edit of lines
\* 81-85 with no branch between them
ExtractionCalled == PlaceOf("edit_message_text", "keywords") > 0

\* analyze_product_keywords was called: line 101, after the edit of lines
\* 91-95 when no marker is in the list
AnalysisCalled == method = "analyze_product_keywords"

\* get_product_data gave None or {}
CardLacking == ret.val.none \/ ret.val.json.keys = {}

\* The requests of the handler so far are the card request alone
CardRequestOnly ==
    /\ Len(events) = 1
    /\ events[1].kind = "request"
    /\ events[1].op = "card"

LastReply == replies[Len(replies)]

\* C29: the handler fetches the card, then extracts the keywords, then
\* analyses, each only after the one before has given its result.  With
\* a URL that has no id nothing is requested; when the card fetch gives
\* nothing, extract_keywords is not called and no detail or search
\* request is sent; when extract_keywords raises, no detail or search
\* request is sent; in each of these cases the user gets an error text.
C29_StagesInOrder ==
    /\ bpc = "data" => (~ExtractionCalled /\ ~AnalysisCalled)
    /\ (ExtractionCalled /\ ~AnalysisCalled) =>
          (CardRequestOnly /\ ~CardLacking)
    /\ bpc = "llm" => (ExtractionCalled /\ ~AnalysisCalled)
    /\ AnalysisCalled =>
          /\ ExtractionCalled
          /\ Len(llm_keywords) > 0
          /\ PlaceOf("edit_message_text", "keywords")
                < PlaceOf("edit_message_text", "searching")
    /\ (\E i \in 1..Len(events) : events[i].op \in {"detail", "search"}) =>
          AnalysisCalled
    /\ (bpc = "done" /\ ~Parseable(message.url)) =>
          /\ events = <<>>
          /\ method = "none"
          /\ ~ExtractionCalled
          /\ LastReply = BotCall("answer", "invalid link")
    /\ (bpc = "done" /\ method = "get_product_data" /\ CardLacking) =>
          /\ CardRequestOnly
          /\ ~ExtractionCalled
          /\ llm_keywords = <<>>
          /\ PlaceOf("answer", "no data") > 0
    /\ (bpc = "done" /\ method = "get_product_data" /\ ~CardLacking
            /\ llm_keywords = <<>>) =>
          /\ CardRequestOnly
          /\ LastReply = BotCall("answer", "error")

\* The card request was answered with a 404: the no-data answer, no
\* keyword extraction and no other request
C29_Witness ==
    /\ bpc = "done"
    /\ Parseable(message.url)
    /\ CardRequestOnly
    /\ last_http.exc = "none" /\ last_http.status # HTTP_OK
    /\ ret.val.none
    /\ ~ExtractionCalled
    /\ replies = <<BotCall("send_chat_action", "typing"),
                   BotCall("answer", "processing"),
                   BotCall("answer", "no data"),
                   BotCall("delete_message", "")>>

(***************************************************************************)
(* Claims about the scans of an analysis (SpecAnalyze)                     *)
(***************************************************************************)
\* find_product_position has been entered and has sent no request yet
ScanJustStarted ==
    /\ apc = "scan"
    /\ pc = "fetch"
    /\ fetched = <<>>

\* The URL matches the pattern with digits whose value is 0
ZeroId(url) ==
    /\ url.prefix
    /\ url.suffix
    /\ Len(url.digits) >= 1
    /\ DigitsToInt(url.digits) = 0

\* C30: a scan that analyze_product_keywords starts is for the id of the
\* URL, which is > 0, and starts with page 1 and the counter at 0,
\* whatever the scans of the keywords before it found; the first search
\* request of each keyword is for page 1; a URL whose id is 0 gets the
\* placeholder result and no scan.
C30_ScansFromStart ==
    Analyzing =>
        /\ apc = "scan" =>
              /\ product_id > 0
              /\ product_id = DigitsToInt(product_url.digits)
        /\ ScanJustStarted => (page = 1 /\ current_position = 0)
        /\ \A i \in SearchPlaces :
              (\A j \in SearchPlaces : j < i => events[j].kw # events[i].kw)
              => events[i].page = 1
        /\ ZeroId(product_url) =>
              /\ apc = "done"
              /\ result.kind = "value"
              /\ result.product = PlaceholderDetails(product_url)
              /\ pc \notin {"fetch", "sleep"}
              /\ events = <<>>

\* The scan of the second keyword starts, the first keyword's having
\* found the product at rank 3 on its second page
C30_Witness ==
    /\ Analyzing
    /\ ScanJustStarted
    /\ kw = 2
    /\ search_results = <<SearchResult(keywords[1], SomeInt(3))>>
    /\ product_id = 1
    /\ page = 1
    /\ current_position = 0

=============================================================================
